---------------------------- MODULE Spec2Model ----------------------------
(***************************************************************************)
(* A model of the sequential indicator and signal engine of                *)
(* bc_technical_analysis.py: the same-direction accumulation scan (sda),   *)
(* the redundant-signal removal, the Parabolic SAR and Renko state         *)
(* machines, the trend classification / score fusion of                    *)
(* calculate_ta_static, calculate_ta_score and calculate_ta_signal, the    *)
(* control flow of calculate_ta_feature, the KAMA recurrence cal_kama, the *)
(* ATR and ADX recurrences, assign_condition_value over the trend rule     *)
(* tables, the columns each stage of the pipeline assigns, the overall     *)
(* trend index, and cal_crossover_signal.                                  *)
(*                                                                         *)
(* Each component has its own specification (SpecSda, SpecSignal, ...).    *)
(* The variables of the components a specification does not exercise stay  *)
(* at their idle values.                                                   *)
(***************************************************************************)
EXTENDS Integers, Sequences, FiniteSets, TLC

VARIABLES
  \* ---- sda (src/bc_technical_analysis.py:1399-1461)
  sda_labels,      \* the trend label column the series was mapped from, <<>> for a raw numeric series
  series,          \* sda's argument
  new_series,      \* the copy sda accumulates in place
  previous_idx,    \* 0 stands for None
  zero_as,         \* <<>> stands for None, <<v>> for the value v
  one_restart,
  sda_pc,          \* "loop" while iterrows runs, "done" after the return
  \* ---- remove_redundant_signal (src/bc_technical_analysis.py:1726-1754)
  sig_in,          \* the signal column of the df handed in
  sig_df,          \* the signal column of the copy that is returned
  other_in,        \* another column of the df handed in
  other_df,        \* that column in the copy that is returned
  keep,
  pos_signal,
  neg_signal,
  none_signal,
  sig_pc,          \* "call" before the call, "done" after the return
  \* ---- add_psar_features (src/bc_technical_analysis.py:3180-3273)
  bars,            \* the OHLC rows of df: a sequence of [low, high, close]
  psar,            \* df['psar'], in units of 1/PsarScale
  psar_up,         \* df['psar_up']: <<>> stands for NaN, <<v>> for the value v
  psar_down,       \* df['psar_down']
  up_trend,
  af,              \* in units of 1/AfDen
  max_step,        \* in units of 1/AfDen
  up_trend_high,
  down_trend_low,
  reversal,        \* the value of the local reversal after each pass of the loop
  psar_i,          \* the next bar of the loop (bars are numbered from 1)
  psar_pc,         \* "loop" while the loop runs, "done" after the return
  \* ---- add_renko_features (src/bc_technical_analysis.py:3324-3478)
  renko_close,     \* df['Close'], in thousandths
  dynamic_brick,
  bsz,             \* df['bsz'], in thousandths
  renko_df,        \* the bricks: a sequence of [date, open, high, low, close, uptrend, height]
  brick_size,
  renko_i,         \* the next row of df.iterrows() (rows are numbered from 1)
  merge_duplicated,
  renko_out,       \* renko_df after the merge of lines 3447-3478: rows of [date, renko_o, renko_h, renko_l,
                   \* renko_c, renko_color, renko_brick_height, renko_brick_number]; <<>> before
  renko_pass,      \* the locals of the last pass at line 3375: close - close_p1, brick_size, bricks, uptrend
  renko_pc,        \* "loop" while the loop runs, "done" after it
  \* ---- calculate_ta_static, calculate_ta_signal (src/bc_technical_analysis.py:271-688, 1053-1171)
  ta_df,           \* the df: a function from column names to columns (sequences, one entry a bar)
  ta_pc,           \* "feature" before calculate_ta_static, "static" after it, "signal" after calculate_ta_signal
  \* ---- calculate_ta_feature (src/bc_technical_analysis.py:799-837)
  in_rows,         \* the rows of the df handed in: a sequence of [ts, src], src the row's position in that df
  has_split,       \* whether the df handed in has the columns preprocess reads ('Split', 'Adj Close')
  indicators,      \* indicators['trend']; indicators['volatility'] is ['bb']
  df_rows,         \* the rows of the local df
  df_columns,      \* the columns the stages have added to df
  phase,           \* the phase about to run, "returned" after the return
  printed,         \* the phases whose exception an except clause printed
  result,          \* "pending", then what the caller gets: "df", "None" or "error" for a raised exception
  recursed,        \* the recursive stages that ran, each with the index it iterated over
  \* ---- cal_kama (src/bc_technical_analysis.py:3885-3938)
  kama_close,      \* df['Close']
  n1,
  sc,              \* the smoothing constants: a sequence of rationals <<num, den>>, <<0, 0>> for NaN
  kama_out,        \* the array kama, of rationals
  first_value,
  kama_i,          \* the next index of the loop (bars are numbered from 1)
  kama_pc,         \* "loop" while the loop runs, "done" after the return
  \* ---- add_atr_features (src/bc_technical_analysis.py:4317-4362)
  atr_bars,        \* the rows of df: records [low, high, close]
  atr_n,           \* the window size n
  tr,              \* df['tr'], integers
  atr,             \* df['atr'], rationals
  atr_diff,        \* df['atr_diff'], rationals
  atr_i,           \* the next index of the loop (bars are numbered from 1)
  atr_pc,          \* "start", "loop" while the loop runs, "done" after the return
  \* ---- add_adx_features (src/bc_technical_analysis.py:2680-2743)
  dx,              \* df['dx'], integers, NaN where the directional indicators are undefined
  adx_out,         \* df['adx'], rationals
  adx_i,           \* the next index of the loop (bars are numbered from 1)
  adx_pc,          \* "start", "loop" while the loop runs, "done" after the return
  \* ---- assign_condition_value (src/bc_technical_analysis.py:1319-1349)
  cond_df,         \* the rows of df the conditions are queried on
  cond_column,     \* the target column: which rule table is applied
  cond_out,        \* df[column]
  cond_k,          \* the position in value_dict.keys() of the next key
  cond_pc,         \* "start", "keys" while the loop runs, "done" after the return
  \* ---- the stages preprocess .. calculate_ta_signal (src/bc_technical_analysis.py:143-1171)
  pipe_in,         \* the rows handed to preprocess: records [Close, Adj_Close]
  aroon,           \* whether 'aroon' is in indicators['trend']
  pipe_close,      \* df['Close'], rationals
  writers,         \* for every column of df the stages that assigned to it, in order
  dropped,         \* the columns a stage dropped that an earlier stage had written
  pipe_pc,         \* the stage to run next, "done" after calculate_ta_signal
  \* ---- the overall trend of calculate_ta_static (src/bc_technical_analysis.py:637-683)
  ov_indicators,   \* the lists of the parameter indicators, in the order of its keys
  ov_trend,        \* df[f'{indicator}_trend'] for every indicator name
  all_indicators,
  ov_idx,          \* the columns up_trend_idx, down_trend_idx and trend_idx of df
  ov_k,            \* the position in all_indicators of the next indicator
  ov_pc,           \* "start", "loop" while the loop runs, "done" after line 682
  \* ---- cal_crossover_signal (src/bc_technical_analysis.py:1640-1671)
  fast_line,       \* df[fast_line]
  slow_line,       \* df[slow_line]
  cross_signal,    \* df[result_col] as returned
  cross_pc         \* "start", "done" after the return

sdaVars == <<sda_labels, series, new_series, previous_idx, zero_as, one_restart, sda_pc>>

sigVars == <<sig_in, sig_df, other_in, other_df, keep, pos_signal, neg_signal, none_signal, sig_pc>>

psarVars == <<bars, psar, psar_up, psar_down, up_trend, af, max_step, up_trend_high,
              down_trend_low, reversal, psar_i, psar_pc>>

renkoVars == <<renko_close, dynamic_brick, bsz, renko_df, brick_size, renko_i, renko_pass,
               merge_duplicated, renko_out, renko_pc>>

taVars == <<ta_df, ta_pc>>

featureVars == <<in_rows, has_split, indicators, df_rows, df_columns, phase, printed,
                 result, recursed>>

kamaVars == <<kama_close, n1, sc, kama_out, first_value, kama_i, kama_pc>>

atrVars == <<atr_bars, atr_n, tr, atr, atr_diff, atr_i, atr_pc>>

adxVars == <<dx, adx_out, adx_i, adx_pc>>

condVars == <<cond_df, cond_column, cond_out, cond_k, cond_pc>>

pipeVars == <<pipe_in, aroon, pipe_close, writers, dropped, pipe_pc>>

overallVars == <<ov_indicators, ov_trend, all_indicators, ov_idx, ov_k, ov_pc>>

crossVars == <<fast_line, slow_line, cross_signal, cross_pc>>

vars == <<sdaVars, sigVars, psarVars, renkoVars, taVars, featureVars, kamaVars, atrVars, adxVars, condVars, pipeVars, overallVars, crossVars>>

\* what the actions of one component leave alone
othersOfSda == <<sigVars, psarVars, renkoVars, taVars, featureVars, kamaVars, atrVars, adxVars, condVars, pipeVars, overallVars, crossVars>>

othersOfSignal == <<sdaVars, psarVars, renkoVars, taVars, featureVars, kamaVars, atrVars, adxVars, condVars, pipeVars, overallVars, crossVars>>

othersOfPsar == <<sdaVars, sigVars, renkoVars, taVars, featureVars, kamaVars, atrVars, adxVars, condVars, pipeVars, overallVars, crossVars>>

othersOfRenko == <<sdaVars, sigVars, psarVars, taVars, featureVars, kamaVars, atrVars, adxVars, condVars, pipeVars, overallVars, crossVars>>

othersOfTa == <<sdaVars, sigVars, psarVars, renkoVars, featureVars, kamaVars, atrVars, adxVars, condVars, pipeVars, overallVars, crossVars>>

othersOfKama == <<sdaVars, sigVars, psarVars, renkoVars, taVars, featureVars, atrVars, adxVars, condVars, pipeVars, overallVars, crossVars>>

othersOfFeature == <<sdaVars, sigVars, psarVars, renkoVars, taVars, kamaVars, atrVars, adxVars, condVars, pipeVars, overallVars, crossVars>>

othersOfAtr == <<sdaVars, sigVars, psarVars, renkoVars, taVars, featureVars, kamaVars, adxVars, condVars, pipeVars, overallVars, crossVars>>

othersOfAdx == <<sdaVars, sigVars, psarVars, renkoVars, taVars, featureVars, kamaVars, atrVars, condVars, pipeVars, overallVars, crossVars>>

othersOfCond == <<sdaVars, sigVars, psarVars, renkoVars, taVars, featureVars, kamaVars, atrVars, adxVars, pipeVars, overallVars, crossVars>>

othersOfPipe == <<sdaVars, sigVars, psarVars, renkoVars, taVars, featureVars, kamaVars, atrVars, adxVars, condVars, overallVars, crossVars>>

othersOfOverall == <<sdaVars, sigVars, psarVars, renkoVars, taVars, featureVars, kamaVars, atrVars, adxVars, condVars, pipeVars, crossVars>>

othersOfCross == <<sdaVars, sigVars, psarVars, renkoVars, taVars, featureVars, kamaVars, atrVars, adxVars, condVars, pipeVars, overallVars>>

-----------------------------------------------------------------------------
(* Bounds *)

MaxLen == 4        \* longest series handed to sda
MaxSig == 5        \* longest signal column handed to remove_redundant_signal
MaxBars == 4       \* most bars in the df handed to add_psar_features
MaxRenkoBars == 4  \* most rows in the df handed to add_renko_features
MaxTaBars == 3     \* most bars in the df handed to calculate_ta_static
MaxKamaBars == 4   \* most bars in the df handed to cal_kama
MaxAtrBars == 3    \* most bars in the df handed to add_atr_features
MaxAdxBars == 6    \* most bars in the df handed to add_adx_features
MaxCondRows == 2   \* most rows in the df handed to assign_condition_value
MaxPipeRows == 2   \* most rows in the df handed to preprocess
MaxOverallBars == 1 \* most bars in the df whose overall trend index is computed
MaxCrossBars == 4  \* most bars in the df handed to cal_crossover_signal
MaxRows == 3       \* most rows in the df handed to calculate_ta_feature; timestamps are drawn from 1..MaxRows

-----------------------------------------------------------------------------
(* Helpers *)

Abs(x) == IF x < 0 THEN -x ELSE x

Sign(x) == IF x > 0 THEN 1 ELSE IF x < 0 THEN -1 ELSE 0

-----------------------------------------------------------------------------
(* Idle values of the components a specification does not exercise *)

IdleSignal ==
  /\ sig_in = <<>>
  /\ sig_df = <<>>
  /\ other_in = <<>>
  /\ other_df = <<>>
  /\ keep = "first"
  /\ pos_signal = "b"
  /\ neg_signal = "s"
  /\ none_signal = "n"
  /\ sig_pc = "idle"

IdlePsar ==
  /\ bars = <<>>
  /\ psar = <<>>
  /\ psar_up = <<>>
  /\ psar_down = <<>>
  /\ up_trend = TRUE
  /\ af = 0
  /\ max_step = 0
  /\ up_trend_high = 0
  /\ down_trend_low = 0
  /\ reversal = <<>>
  /\ psar_i = 0
  /\ psar_pc = "idle"

IdleFeature ==
  /\ in_rows = <<>>
  /\ has_split = TRUE
  /\ indicators = <<>>
  /\ df_rows = <<>>
  /\ df_columns = {}
  /\ phase = "idle"
  /\ printed = <<>>
  /\ result = "pending"
  /\ recursed = {}

IdleAtr ==
  /\ atr_bars = <<>>
  /\ atr_n = 0
  /\ tr = <<>>
  /\ atr = <<>>
  /\ atr_diff = <<>>
  /\ atr_i = 0
  /\ atr_pc = "idle"

IdleAdx ==
  /\ dx = <<>>
  /\ adx_out = <<>>
  /\ adx_i = 0
  /\ adx_pc = "idle"

IdleCond ==
  /\ cond_df = <<>>
  /\ cond_column = ""
  /\ cond_out = <<>>
  /\ cond_k = 0
  /\ cond_pc = "idle"

IdlePipe ==
  /\ pipe_in = <<>>
  /\ aroon = FALSE
  /\ pipe_close = <<>>
  /\ writers = <<>>
  /\ dropped = {}
  /\ pipe_pc = "idle"

IdleOverall ==
  /\ ov_indicators = <<>>
  /\ ov_trend = <<>>
  /\ all_indicators = <<>>
  /\ ov_idx = <<>>
  /\ ov_k = 0
  /\ ov_pc = "idle"

IdleCross ==
  /\ fast_line = <<>>
  /\ slow_line = <<>>
  /\ cross_signal = <<>>
  /\ cross_pc = "idle"

IdleKama ==
  /\ kama_close = <<>>
  /\ n1 = 0
  /\ sc = <<>>
  /\ kama_out = <<>>
  /\ first_value = TRUE
  /\ kama_i = 0
  /\ kama_pc = "idle"

IdleTa ==
  /\ ta_df = <<>>
  /\ ta_pc = "idle"

IdleRenko ==
  /\ renko_close = <<>>
  /\ dynamic_brick = FALSE
  /\ bsz = <<>>
  /\ renko_df = <<>>
  /\ brick_size = 0
  /\ renko_i = 0
  /\ renko_pass = <<>>
  /\ merge_duplicated = FALSE
  /\ renko_out = <<>>
  /\ renko_pc = "idle"

-----------------------------------------------------------------------------
(* sda: same direction accumulation *)

\* values of a raw numeric series
SdaVals == {-2, -1, 0, 1, 2}

\* values of zero_as used by the callers (None, 0, 1) and an arbitrary negative one
ZeroAsVals == {<<>>, <<0>>, <<1>>, <<-2>>}

TrendLabels == {"u", "d", "n", ""}

\* .replace({'': 0, 'n':0, 'u':1, 'd':-1})
TrendToInt(l) == IF l = "u" THEN 1 ELSE IF l = "d" THEN -1 ELSE 0

\* a mutant of SdaValue: accumulates whenever both values are non-zero
SdaValueAnySign(current_val, previous_val, za, orst) ==
  IF current_val * previous_val # 0
    THEN IF orst /\ current_val \in {1, -1}
           THEN current_val
           ELSE current_val + previous_val
    ELSE IF current_val = 0 /\ previous_val # 0
      THEN IF za # <<>>
             THEN IF previous_val > 0 THEN previous_val + za[1] ELSE previous_val - za[1]
             ELSE current_val
      ELSE current_val

\* a mutant of SdaValue: a flat reading always subtracts zero_as
SdaValueZeroMinus(current_val, previous_val, za, orst) ==
  IF current_val * previous_val > 0
    THEN IF orst /\ current_val \in {1, -1}
           THEN current_val
           ELSE current_val + previous_val
    ELSE IF current_val = 0 /\ previous_val # 0
      THEN IF za # <<>>
             THEN previous_val - za[1]
             ELSE current_val
      ELSE current_val

\* a mutant of SdaValue: a flat reading is left at 0 whatever zero_as is
SdaValueZeroStays(current_val, previous_val, za, orst) ==
  IF current_val * previous_val > 0
    THEN IF orst /\ current_val \in {1, -1}
           THEN current_val
           ELSE current_val + previous_val
    ELSE current_val

\* the value written at current_idx by one pass of the loop body (lines 1430-1450)
SdaValue(current_val, previous_val, za, orst) ==
  IF current_val * previous_val > 0
    THEN IF orst /\ current_val \in {1, -1}
           THEN current_val
           ELSE current_val + previous_val
    ELSE IF current_val = 0 /\ previous_val # 0
      THEN IF za # <<>>
             THEN IF previous_val > 0 THEN previous_val + za[1] ELSE previous_val - za[1]
             ELSE current_val
      ELSE current_val

\* a raw numeric series with any zero_as / one_restart
InitSdaRaw ==
  /\ sda_labels = <<>>
  /\ \E n \in 1..MaxLen : series \in [1..n -> SdaVals]
  /\ zero_as \in ZeroAsVals
  /\ one_restart \in BOOLEAN

\* a day counter: a trend label column mapped to 1/-1/0, zero_as=1 (lines 665, 667, 2213-2214)
InitSdaDay ==
  /\ \E n \in 1..MaxLen : sda_labels \in [1..n -> TrendLabels]
  /\ series = [i \in 1..Len(sda_labels) |-> TrendToInt(sda_labels[i])]
  /\ zero_as = <<1>>
  /\ one_restart \in BOOLEAN

InitSdaVars ==
  /\ InitSdaRaw \/ InitSdaDay
  /\ new_series = series
  /\ previous_idx = 0
  /\ sda_pc = "loop"

IdleSda ==
  /\ sda_labels = <<>>
  /\ series = <<>>
  /\ new_series = <<>>
  /\ previous_idx = 0
  /\ zero_as = <<>>
  /\ one_restart = FALSE
  /\ sda_pc = "idle"

\* a mutant of PreviousVal: the raw previous input
PreviousValRaw == series[previous_idx]

\* previous_val = new_series.loc[previous_idx, target_col]: read from the copy
\* the loop writes to (line 1431)
PreviousVal == new_series[previous_idx]

\* the first pass of the loop: previous_idx is None, nothing is written
SdaFirst ==
  /\ sda_pc = "loop"
  /\ previous_idx = 0
  /\ previous_idx' = 1
  /\ UNCHANGED <<sda_labels, series, new_series, zero_as, one_restart, sda_pc>>
  /\ UNCHANGED othersOfSda

\* a later pass of the loop
SdaStep ==
  /\ sda_pc = "loop"
  /\ previous_idx >= 1
  /\ previous_idx < Len(series)
  /\ LET current_idx == previous_idx + 1
         current_val == new_series[current_idx]
         previous_val == PreviousVal
     IN /\ new_series' = [new_series EXCEPT ![current_idx] =
                             SdaValue(current_val, previous_val, zero_as, one_restart)]
        /\ previous_idx' = current_idx
  /\ UNCHANGED <<sda_labels, series, zero_as, one_restart, sda_pc>>
  /\ UNCHANGED othersOfSda

\* the loop is exhausted: sda returns new_series
SdaReturn ==
  /\ sda_pc = "loop"
  /\ previous_idx = Len(series)
  /\ sda_pc' = "done"
  /\ UNCHANGED <<sda_labels, series, new_series, previous_idx, zero_as, one_restart>>
  /\ UNCHANGED othersOfSda

NextSda == SdaFirst \/ SdaStep \/ SdaReturn

InitSda == InitSdaVars /\ IdleSignal /\ IdlePsar /\ IdleRenko /\ IdleTa /\ IdleFeature /\ IdleKama /\ IdleAtr /\ IdleAdx /\ IdleCond /\ IdlePipe /\ IdleOverall /\ IdleCross

SpecSda == InitSda /\ [][NextSda]_vars

\* positions whose output value is final
SdaFinal == IF sda_pc = "done" THEN 1..Len(series) ELSE 1..previous_idx

\* C1: at every position t where series[t] != 0 the value sda produced has
\* the sign of series[t], for every zero_as and one_restart.
SdaPreservesSign ==
  \A t \in SdaFinal : series[t] # 0 => Sign(new_series[t]) = Sign(series[t])

\* C1 witness: sda has returned a series in which a non-zero value was
\* accumulated onto its predecessor.
SdaSignWitness ==
  /\ sda_pc = "done"
  /\ \E t \in 2..Len(series) :
       /\ series[t] # 0
       /\ new_series[t] # series[t]
       /\ Sign(new_series[t]) = Sign(series[t])

\* C3 as claimed: in every day counter, also one computed with one_restart,
\* the magnitude never drops while the sign is unchanged, and a sign flip
\* restarts the counter at +1 or -1.
DayCounterMonotoneAlways ==
  sda_labels # <<>> =>
    \A t \in SdaFinal : t >= 2 =>
      /\ Sign(new_series[t]) = Sign(new_series[t-1])
           => Abs(new_series[t]) >= Abs(new_series[t-1])
      /\ Sign(new_series[t]) # Sign(new_series[t-1])
           => new_series[t] \in {1, -1}

\* C3 amended: the magnitude never drops while the sign is unchanged, except
\* that a counter computed with one_restart restarts at +1/-1 on a bar
\* labelled u or d; a sign flip restarts the counter at +1 or -1.
DayCounterMonotone ==
  sda_labels # <<>> =>
    \A t \in SdaFinal : t >= 2 =>
      /\ Sign(new_series[t]) = Sign(new_series[t-1])
           => \/ Abs(new_series[t]) >= Abs(new_series[t-1])
              \/ /\ one_restart
                 /\ sda_labels[t] \in {"u", "d"}
                 /\ new_series[t] \in {1, -1}
      /\ Sign(new_series[t]) # Sign(new_series[t-1])
           => new_series[t] \in {1, -1}

\* C3 witness: a day counter without one_restart that grew to 3 and then
\* flipped to -1.
DayCounterWitness ==
  /\ sda_pc = "done"
  /\ sda_labels # <<>>
  /\ ~one_restart
  /\ \E t \in 2..Len(series) : new_series[t-1] = 3 /\ new_series[t] = -1

\* the recurrence of C13 over the argument series: out[1] = series[1] and
\* out[t] is computed from series[t] and out[t-1]
RECURSIVE Out(_)
Out(t) ==
  IF t = 1 THEN series[1]
  ELSE LET prev == Out(t - 1)
       IN IF series[t] * prev > 0
            THEN IF one_restart /\ series[t] \in {1, -1}
                   THEN series[t]
                   ELSE series[t] + prev
          ELSE IF series[t] = 0 /\ prev # 0 /\ zero_as # <<>>
            THEN IF prev > 0 THEN prev + zero_as[1] ELSE prev - zero_as[1]
          ELSE series[t]

\* C13: the series sda returns is the single-pass recurrence over its own
\* output: out[0] = series[0] and, for t >= 1, out[t] is series[t] + out[t-1]
\* on a same-sign pair (series[t] alone when one_restart is set and series[t]
\* is +1 or -1), out[t-1] +/- zero_as on a zero after a non-zero output when
\* zero_as is given, and series[t] otherwise.
SdaIsRecurrenceOverOutput ==
  \A t \in SdaFinal : new_series[t] = Out(t)

\* C13 witness: sda has returned a series in which a zero that follows a
\* zero input continued a streak, which only the accumulated previous
\* output can produce.
SdaRecurrenceWitness ==
  /\ sda_pc = "done"
  /\ \E t \in 2..Len(series) :
       /\ series[t] = 0
       /\ series[t-1] = 0
       /\ new_series[t] # 0
       /\ new_series[t] = Out(t)

\* the bars up to t labelled u or d
DirectionBars(t) == {k \in 1..t : sda_labels[k] \in {"u", "d"}}

\* the last bar up to t labelled u or d (DirectionBars(t) is not empty)
LastDirectionBar(t) == CHOOSE k \in DirectionBars(t) : \A j \in DirectionBars(t) : j <= k

\* the bar the direction in force at t began on: the earliest bar with that
\* label that no opposite label separates from t
DirectionStart(t) ==
  LET dir == sda_labels[LastDirectionBar(t)]
      starts == {j \in DirectionBars(t) :
                   \A k \in DirectionBars(t) : k >= j => sda_labels[k] = dir}
  IN CHOOSE j \in starts : \A k \in starts : j <= k

\* C14: a day counter computed with zero_as=1 and without one_restart is 0
\* until the first bar labelled u or d; from then on it is the sign of the
\* most recent u/d label times the number of bars since that direction began,
\* bars labelled n counting as continuation. So its magnitude grows by exactly
\* 1 on every bar that does not carry the opposite label, it restarts at 1 on
\* an opposite label, and it never returns to 0 once it was non-zero.
DayCounterCountsBarsOfDirection ==
  (sda_labels # <<>> /\ ~one_restart) =>
    \A t \in SdaFinal :
      /\ new_series[t] =
           IF DirectionBars(t) = {} THEN 0
           ELSE TrendToInt(sda_labels[LastDirectionBar(t)]) * (t - DirectionStart(t) + 1)
      /\ (t >= 2 /\ new_series[t-1] # 0) =>
           IF TrendToInt(sda_labels[t]) = -Sign(new_series[t-1])
             THEN new_series[t] = TrendToInt(sda_labels[t])
             ELSE new_series[t] = new_series[t-1] + Sign(new_series[t-1])

\* C14 witness: a returned day counter without one_restart that a bar
\* labelled n carried from 1 to 2 and that the opposite label then reset.
DayCounterCountsWitness ==
  /\ sda_pc = "done"
  /\ sda_labels # <<>>
  /\ ~one_restart
  /\ \E t \in 3..Len(series) :
       /\ sda_labels[t-1] = "n"
       /\ new_series[t-2] = 1
       /\ new_series[t-1] = 2
       /\ new_series[t] = -1

-----------------------------------------------------------------------------
(* remove_redundant_signal *)

\* the index of the rows with a signal: df.query('signal != none_signal').index
SignalRows(col, none) ==
  LET F[i \in 0..Len(col)] ==
        IF i = 0 THEN <<>>
        ELSE IF col[i] # none THEN Append(F[i-1], i) ELSE F[i-1]
  IN F[Len(col)]

\* a mutant of Movement: first and last exchanged
MovementSwapped(k) == IF k = "first" THEN -1 ELSE IF k = "last" THEN 1 ELSE 0

\* {'first': 1, 'last': -1}.get(keep); 0 stands for None
Movement(k) == IF k = "first" THEN 1 ELSE IF k = "last" THEN -1 ELSE 0

\* signals[signal_col] + signals[signal_col].shift(movement) at the j-th
\* signal row: the two one-letter values side by side, <<>> for NaN
IsDupValue(col, rows, j, movement) ==
  IF j - movement \in 1..Len(rows)
    THEN <<col[rows[j]], col[rows[j - movement]]>>
    ELSE <<>>

\* a mutant of DupIdx: shifts the whole column, not the rows with a signal
DupIdxWholeColumn(col, movement, pos, neg, none) ==
  { i \in 1..Len(col) :
      /\ col[i] # none
      /\ i - movement \in 1..Len(col)
      /\ <<col[i], col[i - movement]>> \in {<<pos, pos>>, <<neg, neg>>} }

\* dup_idx (lines 1748-1749)
DupIdx(col, movement, pos, neg, none) ==
  LET rows == SignalRows(col, none)
  IN { rows[j] : j \in { k \in 1..Len(rows) :
         IsDupValue(col, rows, k, movement) \in {<<pos, pos>>, <<neg, neg>>} } }

\* the signal column of the returned df (lines 1740-1754)
RemoveRedundantSignal(col, k, pos, neg, none) ==
  LET movement == Movement(k)
  IN IF Len(SignalRows(col, none)) > 0 /\ movement # 0
       THEN LET dup_idx == DupIdx(col, movement, pos, neg, none)
            IN [i \in 1..Len(col) |-> IF i \in dup_idx THEN none ELSE col[i]]
       ELSE col

\* the callers' signal values: (pos, neg) is ('b','s') by default and
\* ('s','b') for the rsi/mfi/srsi oscillators (lines 4032, 4084, 4129)
InitSignalVars ==
  /\ \E n \in 1..MaxSig : sig_in \in [1..n -> {"b", "s", "n"}]
  /\ sig_df = sig_in
  /\ other_in = [i \in 1..Len(sig_in) |-> i]
  /\ other_df = other_in
  /\ keep \in {"first", "last", "none"}
  /\ \E pn \in {<<"b", "s">>, <<"s", "b">>} : pos_signal = pn[1] /\ neg_signal = pn[2]
  /\ none_signal = "n"
  /\ sig_pc = "call"

RemoveRedundant ==
  /\ sig_pc = "call"
  /\ sig_df' = RemoveRedundantSignal(sig_in, keep, pos_signal, neg_signal, none_signal)
  /\ sig_pc' = "done"
  /\ UNCHANGED <<sig_in, other_in, other_df, keep, pos_signal, neg_signal, none_signal>>
  /\ UNCHANGED othersOfSignal

NextSignal == RemoveRedundant

InitSignal == InitSignalVars /\ IdleSda /\ IdlePsar /\ IdleRenko /\ IdleTa /\ IdleFeature /\ IdleKama /\ IdleAtr /\ IdleAdx /\ IdleCond /\ IdlePipe /\ IdleOverall /\ IdleCross

SpecSignal == InitSignal /\ [][NextSignal]_vars

\* the non-none signals of a column, in order
Emitted(col, none) ==
  LET rows == SignalRows(col, none)
  IN [j \in 1..Len(rows) |-> col[rows[j]]]

\* C2: after remove_redundant_signal with keep first or last the remaining
\* non-none signals strictly alternate, whatever lies between them.
SignalsAlternate ==
  (sig_pc = "done" /\ keep \in {"first", "last"}) =>
    LET e == Emitted(sig_df, none_signal)
    IN \A j \in 1..Len(e) - 1 : e[j] # e[j+1]

\* C2 witness: a column with two equal signals separated by none values was
\* debounced with keep='last' and one of them was suppressed.
SignalsAlternateWitness ==
  /\ sig_pc = "done"
  /\ keep = "last"
  /\ \E i \in 1..Len(sig_in) - 2 :
       /\ sig_in[i] = "b" /\ sig_in[i+1] = "n" /\ sig_in[i+2] = "b"
       /\ sig_df[i] = "n" /\ sig_df[i+2] = "b"

\* the rows before i that carried a signal in the df handed in, and those after
SignalsBefore(i) == {k \in 1..(i - 1) : sig_in[k] # none_signal}

SignalsAfter(i) == {k \in (i + 1)..Len(sig_in) : sig_in[k] # none_signal}

\* the nearest preceding signal has the value of the signal at i
SameAsPreceding(i) ==
  /\ SignalsBefore(i) # {}
  /\ sig_in[CHOOSE k \in SignalsBefore(i) : \A j \in SignalsBefore(i) : j <= k] = sig_in[i]

\* the nearest following signal has the value of the signal at i
SameAsFollowing(i) ==
  /\ SignalsAfter(i) # {}
  /\ sig_in[CHOOSE k \in SignalsAfter(i) : \A j \in SignalsAfter(i) : k <= j] = sig_in[i]

\* C15: remove_redundant_signal only suppresses. With keep='first' a signal
\* becomes none_signal exactly when the nearest preceding signal has the same
\* value, with keep='last' exactly when the nearest following one has; every
\* other cell of the signal column and the other column are unchanged, and
\* with any other keep the table comes back unchanged.
RemoveRedundantOnlySuppresses ==
  sig_pc = "done" =>
    /\ Len(sig_df) = Len(sig_in)
    /\ other_df = other_in
    /\ \A i \in 1..Len(sig_in) :
         LET suppressed ==
               /\ sig_in[i] # none_signal
               /\ \/ keep = "first" /\ SameAsPreceding(i)
                  \/ keep = "last" /\ SameAsFollowing(i)
         IN sig_df[i] = IF suppressed THEN none_signal ELSE sig_in[i]

\* C15 witness: with keep='first' the later of two equal signals separated
\* by a none value was suppressed and the earlier one kept.
RemoveRedundantWitness ==
  /\ sig_pc = "done"
  /\ keep = "first"
  /\ \E i \in 1..Len(sig_in) - 2 :
       /\ sig_in[i] = "s" /\ sig_in[i+1] = "n" /\ sig_in[i+2] = "s"
       /\ sig_df[i] = "s" /\ sig_df[i+2] = "n"

-----------------------------------------------------------------------------
(* add_psar_features: Parabolic SAR *)

\* the defaults step=0.02 and max_step=0.10 are 1/50 and 5/50
AfDen == 50
Step == 1
MaxStepAf == 5

\* psar values are exact rationals: every pass of the loop divides by AfDen
\* once, so after at most MaxBars - 2 passes PsarScale keeps them integral
PsarScale == AfDen ^ (MaxBars - 2)

Min(a, b) == IF a < b THEN a ELSE b

Max(a, b) == IF a > b THEN a ELSE b

\* the prices of the bars
Prices == {1, 2, 3}

\* the values of max_step: step itself, the cap one increment above it and
\* the default
MaxSteps == {Step, 2 * Step, MaxStepAf}

\* the rows of an OHLC table: low <= close <= high
BarRows ==
  { r \in [low : Prices, high : Prices, close : Prices] :
      r.low <= r.close /\ r.close <= r.high }

\* psar[previous] + af * (up_trend_high - psar[previous])   (line 3222)
Project(prev_psar, a, extreme) ==
  prev_psar + (a * (extreme * PsarScale - prev_psar)) \div AfDen

\* psar[previous] - af * (psar[previous] - down_trend_low)   (line 3242)
ProjectDown(prev_psar, a, extreme) ==
  prev_psar - (a * (prev_psar - extreme * PsarScale)) \div AfDen

\* a mutant of ClampUp: the stop is held at or below both preceding lows
ClampUpMin(p, l1, l2) ==
  Min(p, Min(l1, l2) * PsarScale)

\* the stop of a continuing uptrend after the test against the two preceding
\* lows (lines 3234-3239)
ClampUp(p, l1, l2) ==
  IF l2 * PsarScale < p THEN l2 * PsarScale
  ELSE IF l1 * PsarScale < p THEN l1 * PsarScale
  ELSE p

\* the stop of a continuing downtrend after the test against the two
\* preceding highs (lines 3254-3259)
ClampDown(p, h1, h2) ==
  IF h2 * PsarScale > p THEN h2 * PsarScale
  ELSE IF h1 * PsarScale > p THEN h1 * PsarScale
  ELSE p

\* a mutant of NextAf: no cap
NextAfUncapped(a) == a + Step

\* min(af+step, max_step)  (lines 3232, 3252)
NextAf(a) == Min(a + Step, max_step)

\* lines 3202-3210
InitPsarVars ==
  /\ \E n \in 1..MaxBars : bars \in [1..n -> BarRows]
  /\ psar = [t \in 1..Len(bars) |-> bars[t].close * PsarScale]
  /\ psar_up = [t \in 1..Len(bars) |-> <<>>]
  /\ psar_down = [t \in 1..Len(bars) |-> <<>>]
  /\ up_trend = TRUE
  /\ af = Step
  /\ max_step \in MaxSteps
  /\ up_trend_high = bars[1].high
  /\ down_trend_low = bars[1].low
  /\ reversal = [t \in 1..Len(bars) |-> FALSE]
  /\ psar_i = 3
  /\ psar_pc = "loop"

\* what a pass of the loop writes: the record of the new psar[i], the flags
\* and the carried state
PsarPass(i) ==
  LET max_high == bars[i].high
      min_low == bars[i].low
  IN IF up_trend
       THEN LET p == Project(psar[i-1], af, up_trend_high)
            IN IF min_low * PsarScale < p
                 THEN [psar |-> up_trend_high * PsarScale, reversal |-> TRUE,
                       af |-> Step, up_trend_high |-> up_trend_high,
                       down_trend_low |-> min_low]
                 ELSE [psar |-> ClampUp(p, bars[i-1].low, bars[i-2].low),
                       reversal |-> FALSE,
                       af |-> IF max_high > up_trend_high THEN NextAf(af) ELSE af,
                       up_trend_high |-> Max(max_high, up_trend_high),
                       down_trend_low |-> down_trend_low]
       ELSE LET p == ProjectDown(psar[i-1], af, down_trend_low)
            IN IF max_high * PsarScale > p
                 THEN [psar |-> down_trend_low * PsarScale, reversal |-> TRUE,
                       af |-> Step, up_trend_high |-> max_high,
                       down_trend_low |-> down_trend_low]
                 ELSE [psar |-> ClampDown(p, bars[i-1].high, bars[i-2].high),
                       reversal |-> FALSE,
                       af |-> IF min_low < down_trend_low THEN NextAf(af) ELSE af,
                       up_trend_high |-> up_trend_high,
                       down_trend_low |-> Min(min_low, down_trend_low)]

\* a mutant of PsarWrite: a reversal leaves the direction as it was
PsarWriteKeepsTrend(r) ==
  /\ psar' = [psar EXCEPT ![psar_i] = r.psar]
  /\ reversal' = [reversal EXCEPT ![psar_i] = r.reversal]
  /\ af' = r.af
  /\ up_trend_high' = r.up_trend_high
  /\ down_trend_low' = r.down_trend_low
  /\ up_trend' = up_trend
  /\ IF up_trend
       THEN psar_up' = [psar_up EXCEPT ![psar_i] = <<r.psar>>] /\ UNCHANGED psar_down
       ELSE psar_down' = [psar_down EXCEPT ![psar_i] = <<r.psar>>] /\ UNCHANGED psar_up
  /\ psar_i' = psar_i + 1
  /\ UNCHANGED <<bars, max_step, psar_pc>>
  /\ UNCHANGED othersOfPsar

\* the write-back shared by both kinds of pass (lines 3261-3266)
PsarWrite(r) ==
  /\ psar' = [psar EXCEPT ![psar_i] = r.psar]
  /\ reversal' = [reversal EXCEPT ![psar_i] = r.reversal]
  /\ af' = r.af
  /\ up_trend_high' = r.up_trend_high
  /\ down_trend_low' = r.down_trend_low
  /\ up_trend' = (up_trend # r.reversal)
  /\ IF up_trend # r.reversal
       THEN psar_up' = [psar_up EXCEPT ![psar_i] = <<r.psar>>] /\ UNCHANGED psar_down
       ELSE psar_down' = [psar_down EXCEPT ![psar_i] = <<r.psar>>] /\ UNCHANGED psar_up
  /\ psar_i' = psar_i + 1
  /\ UNCHANGED <<bars, max_step, psar_pc>>
  /\ UNCHANGED othersOfPsar

\* a pass of the loop on which the trend continues
PsarContinue ==
  /\ psar_pc = "loop"
  /\ psar_i <= Len(bars)
  /\ ~PsarPass(psar_i).reversal
  /\ PsarWrite(PsarPass(psar_i))

\* a pass of the loop on which the price crosses the projected stop
PsarReverse ==
  /\ psar_pc = "loop"
  /\ psar_i <= Len(bars)
  /\ PsarPass(psar_i).reversal
  /\ PsarWrite(PsarPass(psar_i))

\* the loop is exhausted (fillna=False): the df is returned
PsarReturn ==
  /\ psar_pc = "loop"
  /\ psar_i > Len(bars)
  /\ psar_pc' = "done"
  /\ UNCHANGED <<bars, psar, psar_up, psar_down, up_trend, af, max_step, up_trend_high,
                 down_trend_low, reversal, psar_i>>
  /\ UNCHANGED othersOfPsar

NextPsar == PsarContinue \/ PsarReverse \/ PsarReturn

InitPsar == InitPsarVars /\ IdleSda /\ IdleSignal /\ IdleRenko /\ IdleTa /\ IdleFeature /\ IdleKama /\ IdleAtr /\ IdleAdx /\ IdleCond /\ IdlePipe /\ IdleOverall /\ IdleCross

SpecPsar == InitPsar /\ [][NextPsar]_vars

\* the bars the loop has written
PsarWritten == { t \in 3..Len(bars) : t < psar_i }

\* C4: on every bar t >= 2 without a reversal the stop does not lie inside
\* the range of either preceding bar: in an uptrend psar[t] is at or below
\* both preceding lows, in a downtrend at or above both preceding highs.
PsarOutsidePrecedingBars ==
  \A t \in PsarWritten : ~reversal[t] =>
    /\ psar_up[t] # <<>>
         => psar[t] <= Min(bars[t-1].low, bars[t-2].low) * PsarScale
    /\ psar_down[t] # <<>>
         => psar[t] >= Max(bars[t-1].high, bars[t-2].high) * PsarScale

\* calculate_ta_static's psar_trend of bar t: the default '' is written
\* first, then 'u' where psar_up > 0, then 'd' where psar_down > 0; a
\* comparison with NaN is false (lines 559-566)
PsarTrend(t) ==
  IF psar_down[t] # <<>> /\ psar_down[t][1] > 0 THEN "d"
  ELSE IF psar_up[t] # <<>> /\ psar_up[t][1] > 0 THEN "u"
  ELSE ""

\* close, high and low all rise strictly on every bar
StrictlyRising ==
  \A t \in 2..Len(bars) :
    /\ bars[t].close > bars[t-1].close
    /\ bars[t].high > bars[t-1].high
    /\ bars[t].low > bars[t-1].low

\* C11: for a series whose close, high and low rise strictly on every bar
\* (long enough for the loop to run), add_psar_features never reverses and
\* psar_trend is 'u' on every bar, the first two included.
PsarRisingSeriesIsUpThroughout ==
  (psar_pc = "done" /\ Len(bars) >= 3 /\ StrictlyRising) =>
    \A t \in 1..Len(bars) : ~reversal[t] /\ PsarTrend(t) = "u"

\* a pass of the loop is about to run on bar psar_i
PassPending == psar_pc = "loop" /\ psar_i <= Len(bars)

\* the price of bar psar_i crosses the stop projected for it: in an uptrend
\* its low is below the projection, in a downtrend its high is above it
ReversalDetected ==
  IF up_trend
    THEN bars[psar_i].low * PsarScale < Project(psar[psar_i - 1], af, up_trend_high)
    ELSE bars[psar_i].high * PsarScale > ProjectDown(psar[psar_i - 1], af, down_trend_low)

\* bar psar_i goes beyond the extreme of the trend in force
NewExtreme ==
  IF up_trend THEN bars[psar_i].high > up_trend_high
  ELSE bars[psar_i].low < down_trend_low

\* C16: on every bar where a reversal is detected the direction flips, af is
\* reset to step, psar[t] becomes the extreme of the trend that just ended
\* (up_trend_high leaving an uptrend, down_trend_low leaving a downtrend) and
\* the extreme of the new trend is seeded from the current bar.
PsarReversalFlipsAndReseeds ==
  [][(PassPending /\ ReversalDetected) =>
       /\ reversal'[psar_i]
       /\ up_trend' = ~up_trend
       /\ af' = Step
       /\ psar'[psar_i] = (IF up_trend THEN up_trend_high ELSE down_trend_low) * PsarScale
       /\ IF up_trend
            THEN /\ down_trend_low' = bars[psar_i].low
                 /\ psar_down'[psar_i] = <<psar'[psar_i]>>
            ELSE /\ up_trend_high' = bars[psar_i].high
                 /\ psar_up'[psar_i] = <<psar'[psar_i]>>]_vars

\* C16 witness: an uptrend reversed on one bar and the downtrend it started
\* reversed on the next: both directions of the reversal have run.
PsarReversalWitness ==
  /\ psar_pc = "done"
  /\ \E t \in 4..Len(bars) :
       /\ reversal[t-1] /\ psar_down[t-1] # <<>>
       /\ reversal[t] /\ psar_up[t] # <<>>
       /\ psar[t] = down_trend_low * PsarScale
       /\ af = Step

\* C17: with 0 < step <= max_step, step <= af <= max_step after every bar;
\* a pass of the loop resets af to step on a reversal, raises it by step
\* (capped at max_step) on a non-reversal bar that sets a new extreme of the
\* trend, and leaves it unchanged otherwise.
AfStaysInRange ==
  /\ [](psar_pc \in {"loop", "done"} => (Step <= af /\ af <= max_step))
  /\ [][af' = IF ~PassPending THEN af
               ELSE IF ReversalDetected THEN Step
               ELSE IF NewExtreme THEN Min(af + Step, max_step)
               ELSE af]_vars

\* C17 witness: an uptrend set a new high on two bars running under
\* max_step = 2 * step, so that the second increase was cut at the cap.
AfCappedWitness ==
  /\ psar_pc = "done"
  /\ max_step = 2 * Step
  /\ Len(bars) = 4
  /\ ~reversal[3] /\ ~reversal[4]
  /\ bars[3].high > bars[1].high
  /\ bars[4].high > bars[3].high
  /\ af = max_step

-----------------------------------------------------------------------------
(* add_renko_features: Renko bricks *)

\* brick_size_factor=0.05 is 1/20
BrickFactorDen == 20

\* close prices in thousandths; none of them makes Close * 0.05 a tie of round(3)
RenkoCloses == {40, 41, 42, 44, 45, 47, 52}

\* numpy's round: to the nearest integer, a tie to the even one
RoundHalfEven(num, den) ==
  LET q == num \div den
      r == num % den
  IN IF 2 * r < den THEN q
     ELSE IF 2 * r > den THEN q + 1
     ELSE IF q % 2 = 0 THEN q ELSE q + 1

\* (Close * brick_size_factor).round(3)   (lines 3341, 3345)
BrickSizeOf(close) == RoundHalfEven(close, BrickFactorDen)

\* a mutant of BrickCount: the floor of the quotient
BrickCountFloor(diff, size) == diff \div size

\* int(x / y): the quotient truncated towards zero   (line 3375)
BrickCount(diff, size) ==
  IF diff >= 0 THEN diff \div size ELSE -((-diff) \div size)

\* the bricks of one branch of the loop: n bricks of the given size from
\* close_p1 on, rising when up and falling otherwise
RECURSIVE BrickRun(_, _, _, _, _)
BrickRun(date, close_p1, size, up, n) ==
  IF n = 0 THEN <<>>
  ELSE IF up
    THEN <<[date |-> date, open |-> close_p1, high |-> close_p1 + size,
            low |-> close_p1, close |-> close_p1 + size,
            uptrend |-> up, height |-> size]>>
         \o BrickRun(date, close_p1 + size, size, up, n - 1)
    ELSE <<[date |-> date, open |-> close_p1, high |-> close_p1,
            low |-> close_p1 - size, close |-> close_p1 - size,
            uptrend |-> up, height |-> size]>>
         \o BrickRun(date, close_p1 - size, size, up, n - 1)

\* a mutant of NewBricks: on a reversal the rows keep the old uptrend flag
NewBricksNoFlip(date, close, row_p1, size) ==
  LET uptrend == row_p1.uptrend
      close_p1 == row_p1.close
      brick_size_p1 == row_p1.height
      bricks == BrickCount(close - close_p1, size)
  IN IF uptrend /\ bricks >= 1
       THEN BrickRun(date, close_p1, size, TRUE, bricks)
     ELSE IF uptrend /\ bricks <= -2
       THEN [j \in 1..(-(bricks + 1)) |->
               [BrickRun(date, close_p1 - brick_size_p1, size, FALSE, -(bricks + 1))[j]
                  EXCEPT !.uptrend = TRUE]]
     ELSE IF ~uptrend /\ bricks <= -1
       THEN BrickRun(date, close_p1, size, FALSE, -bricks)
     ELSE IF ~uptrend /\ bricks >= 2
       THEN [j \in 1..(bricks - 1) |->
               [BrickRun(date, close_p1 + brick_size_p1, size, TRUE, bricks - 1)[j]
                  EXCEPT !.uptrend = FALSE]]
     ELSE <<>>

\* a mutant of NewBricks: on a reversal the first opposite brick starts at
\* the last brick close
NewBricksFromLastClose(date, close, row_p1, size) ==
  LET uptrend == row_p1.uptrend
      close_p1 == row_p1.close
      bricks == BrickCount(close - close_p1, size)
  IN IF uptrend /\ bricks >= 1
       THEN BrickRun(date, close_p1, size, TRUE, bricks)
     ELSE IF uptrend /\ bricks <= -2
       THEN BrickRun(date, close_p1, size, FALSE, -(bricks + 1))
     ELSE IF ~uptrend /\ bricks <= -1
       THEN BrickRun(date, close_p1, size, FALSE, -bricks)
     ELSE IF ~uptrend /\ bricks >= 2
       THEN BrickRun(date, close_p1, size, TRUE, bricks - 1)
     ELSE <<>>

\* the rows of a pass whose flip steps back by the current brick size, not by
\* the height of the last brick
NewBricksFlipByCurrentSize(date, close, row_p1, size) ==
  LET uptrend == row_p1.uptrend
      close_p1 == row_p1.close
      bricks == BrickCount(close - close_p1, size)
  IN IF uptrend /\ bricks >= 1
       THEN BrickRun(date, close_p1, size, TRUE, bricks)
     ELSE IF uptrend /\ bricks <= -2
       THEN BrickRun(date, close_p1 - size, size, FALSE, -(bricks + 1))
     ELSE IF ~uptrend /\ bricks <= -1
       THEN BrickRun(date, close_p1, size, FALSE, -bricks)
     ELSE IF ~uptrend /\ bricks >= 2
       THEN BrickRun(date, close_p1 + size, size, TRUE, bricks - 1)
     ELSE <<>>
\* the rows one pass of the loop appends to renko_df (lines 3369-3421)
NewBricks(date, close, row_p1, size) ==
  LET uptrend == row_p1.uptrend
      close_p1 == row_p1.close
      brick_size_p1 == row_p1.height
      bricks == BrickCount(close - close_p1, size)
  IN IF uptrend /\ bricks >= 1
       THEN BrickRun(date, close_p1, size, TRUE, bricks)
     ELSE IF uptrend /\ bricks <= -2
       THEN BrickRun(date, close_p1 - brick_size_p1, size, FALSE, -(bricks + 1))
     ELSE IF ~uptrend /\ bricks <= -1
       THEN BrickRun(date, close_p1, size, FALSE, -bricks)
     ELSE IF ~uptrend /\ bricks >= 2
       THEN BrickRun(date, close_p1 + brick_size_p1, size, TRUE, bricks - 1)
     ELSE <<>>

\* the locals of a pass of the loop once line 3375 has run
PassLocals(close, row_p1, size) ==
  [close_diff |-> close - row_p1.close,
   brick_size |-> size,
   bricks |-> BrickCount(close - row_p1.close, size),
   uptrend |-> row_p1.uptrend]

\* whether a pass of the loop takes one of the four branches that end in
\* brick_size = row['bsz'], and not the continue of line 3421
TakesBranch(close, row_p1, size) ==
  LET bricks == BrickCount(close - row_p1.close, size)
  IN \/ row_p1.uptrend /\ (bricks >= 1 \/ bricks <= -2)
     \/ ~row_p1.uptrend /\ (bricks <= -1 \/ bricks >= 2)

\* the first row of renko_df (lines 3352-3358)
FirstBrick(close, size) ==
  LET c == (close \div size) * size
  IN [date |-> 1, open |-> c - size, high |-> c, low |-> c - size, close |-> c,
      uptrend |-> TRUE, height |-> size]

\* lines 3335-3359; the index of df is unique and every bsz is a number
InitRenkoVars ==
  /\ \E n \in 1..MaxRenkoBars : renko_close \in [1..n -> RenkoCloses]
  /\ dynamic_brick \in BOOLEAN
  /\ bsz = [t \in 1..Len(renko_close) |->
              IF dynamic_brick THEN BrickSizeOf(renko_close[t])
                               ELSE BrickSizeOf(renko_close[1])]
  /\ brick_size = bsz[1]
  /\ renko_df = <<FirstBrick(renko_close[1], bsz[1])>>
  /\ renko_i = 1
  /\ renko_pass = <<>>
  /\ merge_duplicated \in BOOLEAN
  /\ renko_out = <<>>
  /\ renko_pc = "loop"

\* a pass of the loop that appends bricks
RenkoEmit ==
  /\ renko_pc = "loop"
  /\ renko_i <= Len(renko_close)
  /\ TakesBranch(renko_close[renko_i], renko_df[Len(renko_df)], brick_size)
  /\ renko_df' = renko_df \o
       NewBricks(renko_i, renko_close[renko_i], renko_df[Len(renko_df)], brick_size)
  /\ brick_size' = bsz[renko_i]
  /\ renko_pass' = PassLocals(renko_close[renko_i], renko_df[Len(renko_df)], brick_size)
  /\ renko_i' = renko_i + 1
  /\ UNCHANGED <<renko_close, dynamic_brick, bsz, merge_duplicated, renko_out, renko_pc>>
  /\ UNCHANGED othersOfRenko

\* a pass of the loop that ends in continue
RenkoSkip ==
  /\ renko_pc = "loop"
  /\ renko_i <= Len(renko_close)
  /\ ~TakesBranch(renko_close[renko_i], renko_df[Len(renko_df)], brick_size)
  /\ renko_pass' = PassLocals(renko_close[renko_i], renko_df[Len(renko_df)], brick_size)
  /\ renko_i' = renko_i + 1
  /\ UNCHANGED <<renko_close, dynamic_brick, bsz, renko_df, brick_size, merge_duplicated,
                 renko_out, renko_pc>>
  /\ UNCHANGED othersOfRenko

\* the sequence f[1], ..., f[n], each entry evaluated once
SeqOf(f, n) ==
  LET G[k \in 0..n] == IF k = 0 THEN <<>> ELSE Append(G[k - 1], f[k])
  IN G[n]

\* renko_df as a time series with its renko_ columns (lines 3427-3444)
RenkoTimeseries(bricks) ==
  SeqOf([k \in 1..Len(bricks) |->
           [date |-> bricks[k].date,
            renko_o |-> bricks[k].open, renko_h |-> bricks[k].high,
            renko_l |-> bricks[k].low, renko_c |-> bricks[k].close,
            renko_color |-> IF bricks[k].uptrend THEN "green" ELSE "red",
            renko_brick_height |-> bricks[k].height,
            renko_brick_number |-> 1]],
        Len(bricks))

\* the least and the greatest of a non-empty set of numbers
SetMin(S) == CHOOSE x \in S : \A y \in S : x <= y

SetMax(S) == CHOOSE x \in S : \A y \in S : x >= y

\* tmp_rows[field].sum() over the rows at the positions ks
RECURSIVE ColumnSum(_, _, _)
ColumnSum(rows, field, ks) ==
  IF ks = {} THEN 0
  ELSE LET k == CHOOSE j \in ks : TRUE
       IN rows[k][field] + ColumnSum(rows, field, ks \ {k})

\* util.remove_duplicated_index(df=renko_df, keep='last'): of the rows that
\* share a date the last stays
LastOfDate(rows) ==
  LET F[k \in 0..Len(rows)] ==
        IF k = 0 THEN <<>>
        ELSE IF \E j \in (k + 1)..Len(rows) : rows[j].date = rows[k].date
          THEN F[k - 1]
          ELSE Append(F[k - 1], rows[k])
  IN F[Len(rows)]

\* a mutant of MergeDuplicated: the last row of a date stays as it is
MergeKeepsLastOnly(rows) == LastOfDate(rows)

\* lines 3447-3478: the rows of a duplicated date with one colour all take
\* the aggregate of the date; rows of mixed colours are left alone; then the
\* last row of each date stays
MergeDuplicated(rows) ==
  LET at(d) == {j \in 1..Len(rows) : rows[j].date = d}
      colors(d) == {rows[j].renko_color : j \in at(d)}
      col(d, field) == {rows[j][field] : j \in at(d)}
      merged(k) ==
        LET d == rows[k].date
        IN IF Cardinality(at(d)) < 2 \/ Cardinality(colors(d)) # 1 THEN rows[k]
           ELSE IF rows[k].renko_color = "green"
             THEN [rows[k] EXCEPT
                     !.renko_o = SetMin(col(d, "renko_o")),
                     !.renko_l = SetMin(col(d, "renko_l")),
                     !.renko_h = SetMax(col(d, "renko_h")),
                     !.renko_c = SetMax(col(d, "renko_c")),
                     !.renko_brick_height = ColumnSum(rows, "renko_brick_height", at(d)),
                     !.renko_brick_number = ColumnSum(rows, "renko_brick_number", at(d))]
             ELSE [rows[k] EXCEPT
                     !.renko_o = SetMax(col(d, "renko_o")),
                     !.renko_l = SetMin(col(d, "renko_l")),
                     !.renko_h = SetMax(col(d, "renko_h")),
                     !.renko_c = SetMin(col(d, "renko_c")),
                     !.renko_brick_height = ColumnSum(rows, "renko_brick_height", at(d)),
                     !.renko_brick_number = ColumnSum(rows, "renko_brick_number", at(d))]
  IN LastOfDate(SeqOf([k \in 1..Len(rows) |-> merged(k)], Len(rows)))

\* the loop is exhausted: renko_df becomes a time series and, with
\* merge_duplicated, the rows of one date are merged (lines 3423-3478)
RenkoDone ==
  /\ renko_pc = "loop"
  /\ renko_i > Len(renko_close)
  /\ renko_out' = IF merge_duplicated THEN MergeDuplicated(RenkoTimeseries(renko_df))
                  ELSE RenkoTimeseries(renko_df)
  /\ renko_pc' = "done"
  /\ UNCHANGED <<renko_close, dynamic_brick, bsz, renko_df, brick_size, renko_i, renko_pass,
                 merge_duplicated>>
  /\ UNCHANGED othersOfRenko

NextRenko == RenkoEmit \/ RenkoSkip \/ RenkoDone

InitRenko == InitRenkoVars /\ IdleSda /\ IdleSignal /\ IdlePsar /\ IdleTa /\ IdleFeature /\ IdleKama /\ IdleAtr /\ IdleAdx /\ IdleCond /\ IdlePipe /\ IdleOverall /\ IdleCross

SpecRenko == InitRenko /\ [][NextRenko]_vars

\* renko_brick_height with the sign of lines 3501-3503, summed over the bricks
RECURSIVE SignedHeightSum(_)
SignedHeightSum(bricks) ==
  IF bricks = <<>> THEN 0
  ELSE (IF Head(bricks).uptrend THEN Head(bricks).height ELSE -Head(bricks).height)
       + SignedHeightSum(Tail(bricks))

NetCloseChange == renko_close[Len(renko_close)] - renko_close[1]

\* whether the bricks change direction somewhere
HasReversal(bricks) ==
  \E j \in 1..Len(bricks) - 1 : bricks[j].uptrend # bricks[j+1].uptrend

\* the difference between the summed signed heights and the net close
\* change, with the seed brick of lines 3355-3358 counted and left out
RoundTripGap == Abs(SignedHeightSum(renko_df) - NetCloseChange)

RoundTripGapAfterSeed == Abs(SignedHeightSum(Tail(renko_df)) - NetCloseChange)

\* C5 as claimed: with a static brick size the signed brick heights sum to
\* the net close change to within less than one brick size (whether or not
\* the seed brick is counted).
RenkoRoundTripOneBrick ==
  (renko_pc = "done" /\ ~dynamic_brick) =>
    \/ RoundTripGap < bsz[1]
    \/ RoundTripGapAfterSeed < bsz[1]

\* C5 amended: with a static brick size the signed brick heights sum to the
\* net close change to within less than four brick sizes, and to within less
\* than three when the seed brick is left out.
RenkoRoundTripFourBricks ==
  (renko_pc = "done" /\ ~dynamic_brick) =>
    /\ RoundTripGap < 4 * bsz[1]
    /\ RoundTripGapAfterSeed < 3 * bsz[1]

\* C5 witness: a static-brick run with a reversal whose sum is more than two
\* brick sizes away from the net close change.
RenkoRoundTripWitness ==
  /\ renko_pc = "done"
  /\ ~dynamic_brick
  /\ HasReversal(renko_df)
  /\ RoundTripGap > 2 * bsz[1]

\* C18 as claimed: the brick count of every pass is the floor of
\* (close - last brick close) / brick_size, for a negative move as for a
\* positive one (a move of -1.5 brick sizes counts -2).
BricksIsFloorOfQuotient ==
  renko_pass # <<>> =>
    /\ renko_pass.bricks * renko_pass.brick_size <= renko_pass.close_diff
    /\ renko_pass.close_diff < (renko_pass.bricks + 1) * renko_pass.brick_size

\* C18 amended: the brick count of every pass is the quotient truncated
\* towards zero: it has the sign of the move and its magnitude is the number
\* of whole brick sizes in the magnitude of the move (-1.5 counts -1).
BricksIsQuotientTowardsZero ==
  renko_pass # <<>> =>
    /\ renko_pass.bricks * renko_pass.close_diff >= 0
    /\ Abs(renko_pass.bricks) * renko_pass.brick_size <= Abs(renko_pass.close_diff)
    /\ Abs(renko_pass.close_diff) < (Abs(renko_pass.bricks) + 1) * renko_pass.brick_size

\* C18 witness: a pass saw the close more than one brick size, and not a
\* whole number of brick sizes, below the last brick close.
BricksTowardsZeroWitness ==
  /\ renko_pass # <<>>
  /\ renko_pass.close_diff < -renko_pass.brick_size
  /\ renko_pass.close_diff % renko_pass.brick_size # 0
  /\ renko_pass.bricks = -((-renko_pass.close_diff) \div renko_pass.brick_size)

\* a pass of the loop is about to run on row renko_i
RenkoPassPending == renko_pc = "loop" /\ renko_i <= Len(renko_close)

\* how far the close of row renko_i lies from the last brick close against
\* the direction of the last brick (negative when it lies with it)
CounterMove ==
  LET last == renko_df[Len(renko_df)]
  IN IF last.uptrend THEN last.close - renko_close[renko_i]
     ELSE renko_close[renko_i] - last.close

\* C19: the direction flips only on a bar whose close lies at least two
\* brick sizes against the trend from the last brick close; a countermove of
\* less than two brick sizes emits no brick and leaves the last brick close,
\* the direction and the brick size as they were; on a flip the first
\* opposite brick starts one brick back from the last brick close and the
\* bricks emitted number one less than the whole brick sizes of the move.
RenkoFlipNeedsTwoBricks ==
  [][RenkoPassPending =>
       LET last == renko_df[Len(renko_df)]
           n == Len(renko_df') - Len(renko_df)
       IN /\ SubSeq(renko_df', 1, Len(renko_df)) = renko_df
          /\ renko_df'[Len(renko_df')].uptrend # last.uptrend
               => CounterMove >= 2 * brick_size
          /\ (CounterMove > 0 /\ CounterMove < 2 * brick_size)
               => renko_df' = renko_df /\ brick_size' = brick_size
          /\ CounterMove >= 2 * brick_size
               => /\ n >= 1
                  /\ (n + 1) * brick_size <= CounterMove
                  /\ CounterMove < (n + 2) * brick_size
                  /\ \A j \in 1..n : renko_df'[Len(renko_df) + j].uptrend = ~last.uptrend
                  /\ renko_df'[Len(renko_df) + 1].open =
                       IF last.uptrend THEN last.close - last.height
                       ELSE last.close + last.height]_vars

\* C19 witness: an uptrend met a close more than three brick sizes below the
\* last brick close and two falling bricks were emitted on that bar.
RenkoFlipWitness ==
  /\ renko_pass # <<>>
  /\ renko_pass.uptrend
  /\ renko_pass.bricks = -3
  /\ Len(renko_df) >= 3
  /\ ~renko_df[Len(renko_df)].uptrend
  /\ ~renko_df[Len(renko_df) - 1].uptrend
  /\ renko_df[Len(renko_df) - 2].uptrend
  /\ renko_df[Len(renko_df) - 1].open =
       renko_df[Len(renko_df) - 2].close - renko_df[Len(renko_df) - 2].height

\* the bricks a pass of the loop has just appended to renko_df
EmittedBricks == {k \in 1..Len(renko_df') : k > Len(renko_df)}

\* C28: every emitted brick has |close - open| equal to the brick size in
\* effect when it was emitted, a brick in the same direction as its
\* predecessor opens exactly at the predecessor's close, and the first brick
\* after a reversal opens exactly at the open of the last brick before it.
RenkoBricksChain ==
  /\ [](\A k \in 2..Len(renko_df) :
          /\ Abs(renko_df[k].close - renko_df[k].open) = renko_df[k].height
          /\ renko_df[k].uptrend = renko_df[k - 1].uptrend
               => renko_df[k].open = renko_df[k - 1].close
          /\ renko_df[k].uptrend # renko_df[k - 1].uptrend
               => renko_df[k].open = renko_df[k - 1].open)
  /\ [][\A k \in EmittedBricks :
          Abs(renko_df'[k].close - renko_df'[k].open) = brick_size]_vars

\* add_renko_features has returned, with dynamic bricks, after a reversal
\* whose last brick before it was emitted with another brick size than the
\* first brick after it, and after two bricks in a row in one direction
RenkoBricksChainWitness ==
  /\ renko_pc = "done"
  /\ dynamic_brick
  /\ \E k \in 2..Len(renko_df) :
       /\ renko_df[k].uptrend # renko_df[k - 1].uptrend
       /\ renko_df[k].height # renko_df[k - 1].height
  /\ \E k \in 3..Len(renko_df) : renko_df[k].uptrend = renko_df[k - 1].uptrend
\* the bricks the loop built on date d, the seed brick of the first date
\* included
BricksOfDate(d) == {k \in 1..Len(renko_df) : renko_df[k].date = d}

RECURSIVE HeightSum(_)
HeightSum(ks) ==
  IF ks = {} THEN 0
  ELSE LET k == CHOOSE j \in ks : TRUE
       IN renko_df[k].height + HeightSum(ks \ {k})

-----------------------------------------------------------------------------
(* calculate_ta_static, calculate_ta_score, calculate_ta_signal *)

\* np.nan in a column of whole numbers
NaN == -999999

\* a fractional column holds <<numerator, denominator>> in lowest terms with a
\* positive denominator; NaNRat stands for np.nan
NaNRat == <<0, 0>>

IsNaN(r) == r[2] = 0

RECURSIVE GCD(_, _)
GCD(a, b) == IF b = 0 THEN a ELSE GCD(b, a % b)

\* n / d; 0 / 0 is NaN (no other division by zero arises: see Normalize)
Rat(n, d) ==
  IF d = 0 THEN NaNRat
  ELSE LET g == GCD(Abs(n), Abs(d))
           s == IF d < 0 THEN -1 ELSE 1
       IN <<(s * n) \div g, (s * d) \div g>>

ToRat(x) == IF x = NaN THEN NaNRat ELSE <<x, 1>>

RatAdd(a, b) ==
  IF IsNaN(a) \/ IsNaN(b) THEN NaNRat ELSE Rat(a[1] * b[2] + b[1] * a[2], a[2] * b[2])

RatSub(a, b) ==
  IF IsNaN(a) \/ IsNaN(b) THEN NaNRat ELSE Rat(a[1] * b[2] - b[1] * a[2], a[2] * b[2])

RatMul(a, b) ==
  IF IsNaN(a) \/ IsNaN(b) THEN NaNRat ELSE Rat(a[1] * b[1], a[2] * b[2])

RatDiv(a, b) ==
  IF IsNaN(a) \/ IsNaN(b) THEN NaNRat ELSE Rat(a[1] * b[2], a[2] * b[1])

\* comparisons: every comparison with NaN is False
RatLt(a, b) == ~IsNaN(a) /\ ~IsNaN(b) /\ a[1] * b[2] < b[1] * a[2]

RatLe(a, b) == ~IsNaN(a) /\ ~IsNaN(b) /\ a[1] * b[2] <= b[1] * a[2]

RatEq(a, b) == ~IsNaN(a) /\ ~IsNaN(b) /\ a[1] * b[2] = b[1] * a[2]

Lt(x, y) == x # NaN /\ y # NaN /\ x < y

Le(x, y) == x # NaN /\ y # NaN /\ x <= y

\* df[col].diff()   (cal_change, line 1527)
Diff(col) ==
  [t \in 1..Len(col) |->
     IF t = 1 \/ col[t] = NaN \/ col[t - 1] = NaN THEN NaN ELSE col[t] - col[t - 1]]

\* df[col].pct_change()   (cal_change_rate, line 1572)
PctChange(col) ==
  [t \in 1..Len(col) |-> IF t = 1 THEN NaNRat ELSE Rat(col[t] - col[t - 1], col[t - 1])]

\* one pass of sda's loop when a value may be NaN: NaN * x > 0 is False,
\* NaN == 0 is False, NaN != 0 is True, NaN > 0 is False   (lines 1433-1458)
SdaNaN(current_val, previous_val, za, orst) ==
  IF current_val = NaN THEN NaN
  ELSE IF previous_val = NaN
    THEN IF current_val = 0 /\ za # <<>> THEN NaN ELSE current_val
    ELSE SdaValue(current_val, previous_val, za, orst)

\* sda over a whole column: each bar sees the accumulated value of the bar before
SdaColumn(col, za, orst) ==
  LET acc[i \in 1..Len(col)] ==
        IF i = 1 THEN col[1] ELSE SdaNaN(col[i], acc[i - 1], za, orst)
  IN [i \in 1..Len(col) |-> acc[i]]

\* series.replace({'': 0, 'n': 0, 'u': 1, 'd': -1})   (lines 663-665, 1090)
ReplaceLabels(col) == [t \in 1..Len(col) |-> TrendToInt(col[t])]

\* assign_condition_value for one row: the default first, then the values in
\* the order of value_dict, each overwriting what an earlier key assigned
AssignValue(conds, values, default) ==
  LET val[k \in 0..Len(conds)] ==
        IF k = 0 THEN default
        ELSE IF conds[k] THEN values[k] ELSE val[k - 1]
  IN val[Len(conds)]

\* add_candlestick_features: candle_color
CandleColor(open, close) == IF open < close THEN 1 ELSE -1

\* the feature rows calculate_ta_static starts from: prices in whole units,
\* adx_diff_ma and adx in halves
TaFeatureRows ==
  [Open : {10}, Close : {8, 10},
   tankan : {9, 11}, kijun : {10},
   kama_slow : {10},
   adx_diff_ma : {-6, 6}, adx : {60},
   bb_low_band : {9}, bb_high_band : {11}]

\* kama_fast, the line of the long term: it moves after the first bar or not at all
KamaFastColumns(n) ==
  {[t \in 1..n |-> IF t = 1 THEN ab[1] ELSE ab[2]] : ab \in {9, 11} \X {9, 11}}

\* up_score + down_score + 0.5 * (support, resistant, break_up, break_down
\* scores), in halves: what the candle patterns add to inday_trend_score
IndayScores == {-1, 0, 1}

InitTaVars ==
  /\ ta_pc = "feature"
  /\ \E n \in 1..MaxTaBars : \E rows \in [1..n -> TaFeatureRows] :
       \E kama_fast \in KamaFastColumns(n) : \E inday \in IndayScores :
         LET column(c) == [t \in 1..n |-> rows[t][c]]
         IN ta_df =
              [Open |-> column("Open"), Close |-> column("Close"),
               tankan |-> column("tankan"), kijun |-> column("kijun"),
               kama_fast |-> kama_fast, kama_slow |-> column("kama_slow"),
               adx_diff_ma |-> column("adx_diff_ma"), adx |-> column("adx"),
               bb_low_band |-> column("bb_low_band"), bb_high_band |-> column("bb_high_band"),
               candle_color |-> [t \in 1..n |-> CandleColor(rows[t].Open, rows[t].Close)],
               rate |-> PctChange(column("Close")),
               inday_score |-> [t \in 1..n |-> inday]]

\* the number of bars of the df
TaLen == Len(ta_df.Close)

\* ichimoku and kama: distance of the fast line from the slow line, and the trend
DistanceTrend(distance) ==
  AssignValue(<<RatLt(<<0, 1>>, distance), RatLt(distance, <<0, 1>>)>>, <<"u", "d">>, "n")

DistanceCols(fl, sl) ==
  LET n == Len(fl)
      raw == [t \in 1..n |-> fl[t] - sl[t]]
      distance == [t \in 1..n |-> Rat(raw[t], sl[t])]
  IN [distance |-> distance,
      distance_change |->
        [t \in 1..n |-> IF t = 1 THEN NaNRat ELSE Rat(raw[t] - raw[t - 1], sl[t])],
      fl_rate |-> PctChange(fl),
      trend |-> [t \in 1..n |-> DistanceTrend(distance[t])]]

\* adx_direction_day, adx_power_day: threshold 0.5 is 1 half
AdxDay(col) ==
  SdaColumn([t \in 1..Len(col) |->
               AssignValue(<<Lt(1, col[t]), Lt(col[t], -1), Le(-1, col[t]) /\ Le(col[t], 1)>>,
                           <<1, -1, 0>>, 0)],
            <<1>>, FALSE)

\* the adx trend; adx_value, adx_strength and what derives from them in halves
AdxCols(adx_value, adx_strength, candle_color, rate) ==
  LET n == Len(adx_value)
      value_change == Diff(adx_value)
      strength_change == Diff(adx_strength)
      wave(t) == /\ Lt(-2, value_change[t]) /\ Lt(value_change[t], 2)
                 /\ Lt(-1, strength_change[t]) /\ Lt(strength_change[t], 1)
      direction == SdaColumn([t \in 1..n |-> IF wave(t) THEN 0 ELSE value_change[t]],
                             <<0>>, FALSE)
      power == SdaColumn([t \in 1..n |-> IF wave(t) THEN 0 ELSE strength_change[t]],
                         <<0>>, FALSE)
      direction_day == AdxDay(direction)
      power_day == AdxDay(power)
      strong_day ==
        SdaColumn([t \in 1..n |->
                     AssignValue(<<adx_strength[t] >= 50, adx_strength[t] < 50>>, <<1, -1>>, 0)],
                  <<1>>, FALSE)
      wave_day ==
        SdaColumn([t \in 1..n |->
                     AssignValue(<<-20 <= adx_value[t] /\ adx_value[t] <= 20,
                                   -20 > adx_value[t] \/ adx_value[t] > 20>>, <<1, 0>>, 0)],
                  <<>>, FALSE)
      rising(t) == candle_color[t] = 1 \/ RatLt(<<0, 1>>, rate[t])
      flat(t) == Le(-10, direction[t]) /\ Le(direction[t], 10)
      up1(t) == rising(t) /\ Lt(20, direction[t]) /\ direction_day[t] > 2
      up2(t) == /\ rising(t)
                /\ \/ adx_value[t] < 0 /\ power_day[t] < 0
                   \/ adx_value[t] > 0 /\ power_day[t] > 0
                   \/ -10 < adx_value[t] /\ adx_value[t] < 10 /\ Lt(0, direction[t])
                /\ Lt(10, direction[t])
      down1(t) == Lt(direction[t], -10) /\ direction_day[t] < -2
      down2(t) == /\ \/ adx_value[t] > 0 /\ power_day[t] < 0
                     \/ adx_value[t] < 0 /\ power_day[t] > 0
                     \/ -10 < adx_value[t] /\ adx_value[t] < 10 /\ Lt(direction[t], 0)
                  /\ Lt(direction[t], -10)
      wave1(t) == /\ flat(t)
                  /\ \/ Le(-2, strength_change[t]) /\ Le(strength_change[t], 2)
                     \/ Le(-2, value_change[t]) /\ Le(value_change[t], 2)
      wave2(t) == /\ flat(t)
                  /\ -1 <= power_day[t] /\ power_day[t] <= 1
                  /\ -1 <= direction_day[t] /\ direction_day[t] <= 1
      wave3(t) == flat(t) /\ -1 <= strong_day[t] /\ strong_day[t] <= 1
  IN [adx_value |-> adx_value,
      adx_value_change |-> value_change,
      adx_direction |-> direction,
      adx_power |-> power,
      adx_direction_day |-> direction_day,
      adx_power_day |-> power_day,
      adx_strong_day |-> strong_day,
      adx_wave_day |-> wave_day,
      adx_trend |->
        [t \in 1..n |->
           AssignValue(<<up1(t), up2(t), down1(t), down2(t), wave1(t), wave2(t), wave3(t)>>,
                       <<"u", "u", "d", "d", "n", "n", "n">>, "n")]]

\* bb_trend written with the labels of a signal column
BbTrendAsSignal(close, low_band, high_band) ==
  AssignValue(<<close < low_band, close > high_band>>, <<"b", "s">>, "")

\* bb_trend
BbTrend(close, low_band, high_band) ==
  AssignValue(<<close < low_band, close > high_band>>, <<"u", "d">>, "")

\* the indicators of default_indicators, and those that vote in trend_idx
AllIndicators == <<"ichimoku", "kama", "adx", "bb">>

IncludeIndicators == {"ichimoku", "kama", "adx"}

\* <indicator>_day
IndicatorDay(indicator, trend_col) ==
  SdaColumn(ReplaceLabels(trend_col), <<1>>, indicator = "bb")

\* the columns calculate_ta_static adds to df
StaticCols(df) ==
  LET n == Len(df.Close)
      ichimoku == DistanceCols(df.tankan, df.kijun)
      kama == DistanceCols(df.kama_fast, df.kama_slow)
      adx == AdxCols(df.adx_diff_ma, df.adx, df.candle_color, df.rate)
      bb_trend == [t \in 1..n |-> BbTrend(df.Close[t], df.bb_low_band[t], df.bb_high_band[t])]
      trend_of == [ichimoku |-> ichimoku.trend, kama |-> kama.trend,
                   adx |-> adx.adx_trend, bb |-> bb_trend]
      up_trend_idx ==
        [t \in 1..n |-> Cardinality({i \in IncludeIndicators : trend_of[i][t] = "u"})]
      down_trend_idx ==
        [t \in 1..n |-> 0 - Cardinality({i \in IncludeIndicators : trend_of[i][t] = "d"})]
  IN [ichimoku_distance |-> ichimoku.distance,
      ichimoku_distance_change |-> ichimoku.distance_change,
      tankan_rate |-> ichimoku.fl_rate,
      ichimoku_trend |-> ichimoku.trend,
      kama_distance |-> kama.distance,
      kama_distance_change |-> kama.distance_change,
      kama_fast_rate |-> kama.fl_rate,
      kama_trend |-> kama.trend,
      bb_trend |-> bb_trend,
      ichimoku_day |-> IndicatorDay("ichimoku", ichimoku.trend),
      kama_day |-> IndicatorDay("kama", kama.trend),
      adx_day |-> IndicatorDay("adx", adx.adx_trend),
      bb_day |-> IndicatorDay("bb", bb_trend),
      up_trend_idx |-> up_trend_idx,
      down_trend_idx |-> down_trend_idx,
      trend_idx |-> [t \in 1..n |-> up_trend_idx[t] + down_trend_idx[t]]] @@ adx

CalculateTaStatic ==
  /\ ta_pc = "feature"
  /\ ta_df' = StaticCols(ta_df) @@ ta_df
  /\ ta_pc' = "static"
  /\ UNCHANGED othersOfTa

\* cal_score for one row: the sum of the scores (in halves) whose condition holds
CalScore(conds, scores) ==
  LET sum[k \in 0..Len(conds)] ==
        IF k = 0 THEN 0
        ELSE IF conds[k] THEN sum[k - 1] + scores[k] ELSE sum[k - 1]
  IN sum[Len(conds)]

\* score *= 0.8 once for every wave condition that holds
RECURSIVE Damp(_, _)
Damp(score, waves) ==
  IF waves = <<>> THEN score
  ELSE Damp(IF Head(waves) THEN RatMul(score, <<4, 5>>) ELSE score, Tail(waves))

\* normalize: (x - min) / (max - min); min and max skip NaN; when max = min
\* every bar is 0 / 0
Normalize(col) ==
  LET vals == {col[t] : t \in 1..Len(col)} \ {NaNRat}
      mn == CHOOSE v \in vals : \A w \in vals : RatLe(v, w)
      mx == CHOOSE v \in vals : \A w \in vals : RatLe(w, v)
  IN [t \in 1..Len(col) |->
        IF IsNaN(col[t]) THEN NaNRat ELSE RatDiv(RatSub(col[t], mn), RatSub(mx, mn))]

MinMaxNormalize(col) ==
  LET normalized == Normalize(col)
  IN [t \in 1..Len(col) |-> RatSub(RatMul(normalized[t], <<2, 1>>), <<1, 1>>)]

\* the term scores and trend_score that calculate_ta_score adds to df
ScoreCols(df) ==
  LET n == Len(df.Close)
      zero == <<0, 1>>
      short_base(t) ==
        CalScore(<<df.adx_direction_day[t] > 1 /\ Lt(10, df.adx_direction[t]),
                   df.adx_direction_day[t] < -1 /\ Lt(df.adx_direction[t], -10),
                   \/ df.adx_power_day[t] > 1 /\ df.adx_value[t] > 0
                   \/ df.adx_power_day[t] < -1 /\ df.adx_value[t] < 0,
                   \/ df.adx_power_day[t] > 1 /\ df.adx_value[t] < 0
                   \/ df.adx_power_day[t] < -1 /\ df.adx_value[t] > 0,
                   df.adx_trend[t] = "u",
                   df.adx_trend[t] = "d">>,
                 <<1, -1, 1, -1, 2, -2>>)
      short_wave(t) ==
        <<Le(-1, df.adx_value_change[t]) /\ Le(df.adx_value_change[t], 1),
          df.adx_strong_day[t] < 0,
          df.adx_wave_day[t] > 0>>
      middle_base(t) ==
        CalScore(<<RatLt(zero, df.tankan_rate[t]),
                   RatLe(df.tankan_rate[t], zero),
                   RatLt(zero, df.ichimoku_distance_change[t]),
                   RatLt(df.ichimoku_distance_change[t], zero),
                   RatLt(zero, df.ichimoku_distance[t]),
                   RatLt(df.ichimoku_distance[t], zero)>>,
                 <<1, -1, 1, -1, 2, -2>>)
      middle_wave(t) ==
        <<RatEq(df.ichimoku_distance[t], zero),
          RatLt(<<-1, 100>>, df.ichimoku_distance_change[t])
            /\ RatLt(df.ichimoku_distance_change[t], <<1, 100>>),
          RatEq(df.tankan_rate[t], zero)>>
      long_base(t) ==
        CalScore(<<RatLt(zero, df.kama_fast_rate[t]),
                   RatLe(df.kama_fast_rate[t], zero),
                   RatLt(zero, df.kama_distance[t]),
                   RatLt(df.kama_distance[t], zero),
                   RatLt(zero, df.kama_distance[t]),
                   RatLt(df.kama_distance[t], zero)>>,
                 <<1, -1, 1, -1, 2, -2>>)
      long_wave(t) ==
        <<RatEq(df.kama_distance[t], zero),
          RatLt(<<-1, 100>>, df.kama_distance_change[t])
            /\ RatLt(df.kama_distance_change[t], <<1, 100>>),
          RatEq(df.kama_fast_rate[t], zero)>>
      short_key == MinMaxNormalize([t \in 1..n |-> ToRat(df.adx_value_change[t])])
      middle_key == MinMaxNormalize(df.ichimoku_distance_change)
      long_key == MinMaxNormalize(df.kama_distance_change)
      inday == [t \in 1..n |-> Rat(df.inday_score[t], 2)]
      short == [t \in 1..n |-> RatAdd(Damp(Rat(short_base(t), 2), short_wave(t)), short_key[t])]
      middle == [t \in 1..n |-> RatAdd(Damp(Rat(middle_base(t), 2), middle_wave(t)), middle_key[t])]
      long == [t \in 1..n |-> RatAdd(Damp(Rat(long_base(t), 2), long_wave(t)), long_key[t])]
  IN [inday_trend_score |-> inday,
      short_trend_score |-> short,
      middle_trend_score |-> middle,
      long_trend_score |-> long,
      trend_score |->
        [t \in 1..n |->
           RatAdd(RatAdd(RatAdd(RatAdd(zero, RatMul(inday[t], <<1, 5>>)),
                                RatMul(short[t], <<2, 5>>)),
                         RatMul(middle[t], <<1, 5>>)),
                  RatMul(long[t], <<1, 5>>))]]

\* df[score_col].round(2): the score in hundredths
RoundScore(score) == IF IsNaN(score) THEN NaN ELSE RoundHalfEven(score[1] * 100, score[2])

\* a term trend without the dead band around zero
TermTrendNoBand(score) == AssignValue(<<Lt(0, score), Lt(score, 0)>>, <<"u", "d">>, "n")

\* a term trend from the rounded score: 0.1 is 10 hundredths
TermTrend(score) == AssignValue(<<Lt(10, score), Lt(score, -10)>>, <<"u", "d">>, "n")

\* the score, trend and day columns of one term
TermCols(score_col) ==
  LET n == Len(score_col)
      score == [t \in 1..n |-> RoundScore(score_col[t])]
      trend == [t \in 1..n |-> TermTrend(score[t])]
  IN [score |-> score, trend |-> trend,
      day |-> SdaColumn(ReplaceLabels(trend), <<1>>, FALSE)]

\* the columns calculate_ta_signal adds to df (calculate_ta_score is its first call)
SignalCols(df) ==
  LET n == Len(df.Close)
      scored == ScoreCols(df)
      inday == TermCols(scored.inday_trend_score)
      short == TermCols(scored.short_trend_score)
      middle == TermCols(scored.middle_trend_score)
      long == TermCols(scored.long_trend_score)
      overall == TermCols(scored.trend_score)
  IN [inday_trend_score |-> inday.score, inday_trend |-> inday.trend, inday_day |-> inday.day,
      short_trend_score |-> short.score, short_trend |-> short.trend, short_day |-> short.day,
      middle_trend_score |-> middle.score, middle_trend |-> middle.trend, middle_day |-> middle.day,
      long_trend_score |-> long.score, long_trend |-> long.trend, long_day |-> long.day,
      trend_score |-> overall.score, trend |-> overall.trend, trend_day |-> overall.day,
      signal |-> [t \in 1..n |-> ""],
      signal_day |-> [t \in 1..n |-> 0]]

CalculateTaSignal ==
  /\ ta_pc = "static"
  /\ ta_df' = SignalCols(ta_df) @@ ta_df
  /\ ta_pc' = "signal"
  /\ UNCHANGED othersOfTa

NextTa == CalculateTaStatic \/ CalculateTaSignal

InitTa == InitTaVars /\ IdleSda /\ IdleSignal /\ IdlePsar /\ IdleRenko /\ IdleFeature /\ IdleKama /\ IdleAtr /\ IdleAdx /\ IdleCond /\ IdlePipe /\ IdleOverall /\ IdleCross

SpecTa == InitTa /\ [][NextTa]_vars

\* the bars of the df once calculate_ta_signal has returned
SignalBars == IF ta_pc = "signal" THEN 1..TaLen ELSE {}

\* C6 (as the spec states it): calculate_ta_signal writes signal 'b' exactly on
\* the bars where trend_day reaches +1 and 's' exactly on the bars where it
\* reaches -1, and no signal on any other bar.
SignalMarksTrendStart ==
  \A t \in SignalBars :
    /\ ta_df.signal[t] = "b" <=> ta_df.trend_day[t] = 1
    /\ ta_df.signal[t] = "s" <=> ta_df.trend_day[t] = -1

\* the trend label columns of the indicators and of the terms
TrendCols ==
  {"ichimoku_trend", "kama_trend", "adx_trend",
   "inday_trend", "short_trend", "middle_trend", "long_trend", "trend"}

\* the values a column of df holds
ColumnValues(c) == {ta_df[c][t] : t \in 1..Len(ta_df[c])}

-----------------------------------------------------------------------------
(* calculate_ta_feature: preprocess, calculate_ta_basic, calculate_ta_static, *)
(* calculate_ta_dynamic                                                       *)

\* the elements of a sequence
Range(s) == {s[k] : k \in 1..Len(s)}

\* the index of a df: the timestamps of its rows
Index(rows) == [k \in 1..Len(rows) |-> rows[k].ts]

\* every row's timestamp is later than the one of the row before
StrictlyAscending(index) == \A k \in 2..Len(index) : index[k - 1] < index[k]

\* util.remove_duplicated_index(df, keep): of the rows that share a timestamp
\* the first (keep='first') or the last (keep='last') stays, in the df's order
RemoveDuplicatedIndex(rows, k) ==
  LET kept(j) == IF k = "first"
                   THEN \A h \in 1..(j - 1) : rows[h].ts # rows[j].ts
                   ELSE \A h \in (j + 1)..Len(rows) : rows[h].ts # rows[j].ts
  IN SelectSeq([j \in 1..Len(rows) |-> [ts |-> rows[j].ts, src |-> rows[j].src, at |-> j]],
               LAMBDA r : kept(r.at))

\* the rows without the helper field of RemoveDuplicatedIndex
Rows(marked) == [j \in 1..Len(marked) |-> [ts |-> marked[j].ts, src |-> marked[j].src]]

\* df.sort_index(ascending=...) of a df whose timestamps are distinct
SortIndex(rows, ascending) ==
  LET before(a, b) == IF ascending THEN a.ts < b.ts ELSE a.ts > b.ts
      rank(r) == Cardinality({q \in Range(rows) : before(q, r)}) + 1
  IN [j \in 1..Len(rows) |-> CHOOSE r \in Range(rows) : rank(r) = j]

\* preprocess without its last sort_index(): the df stays in the descending
\* order of the Adj Close loop
PreprocessRowsDescending(rows) ==
  SortIndex(Rows(RemoveDuplicatedIndex(rows, "first")), FALSE)

\* what preprocess does to the rows of the df: duplicates dropped, sorted
\* descending for the Adj Close loop, sorted ascending after it
PreprocessRows(rows) ==
  SortIndex(SortIndex(Rows(RemoveDuplicatedIndex(rows, "first")), FALSE), TRUE)

\* the names calculate_ta_basic can evaluate as add_<name>_features
KnownIndicators == {"ichimoku", "adx", "bb"}

\* the names the indicators parameter draws from; there is no add_foo_features
IndicatorNames == {"ichimoku", "adx", "foo"}

\* the values of indicators['trend']: the names, each at most once, in any order
TrendLists ==
  {l \in UNION {[1..k -> IndicatorNames] : k \in 1..Cardinality(IndicatorNames)} :
     \A i, j \in 1..Len(l) : i # j => l[i] # l[j]}

\* all_indicators: indicators['trend'], then indicators['volatility'] = ['bb']
AllIndicatorsOf(trend) == trend \o <<"bb">>

\* a column add_<indicator>_features adds, which calculate_ta_static reads
FeatureColumn(indicator) ==
  CASE indicator = "ichimoku" -> "tankan"
    [] indicator = "adx" -> "adx_diff_ma"
    [] indicator = "bb" -> "bb_low_band"

\* the indicators whose features are a recurrence over the bars
RecursiveIndicators == {"adx"}

\* calculate_ta_basic calls add_<indicator>_features in the order of
\* all_indicators; the first unknown name raises and ends the loop
BasicDone(inds) ==
  LET unknown == {k \in 1..Len(inds) : inds[k] \notin KnownIndicators}
      stop == IF unknown = {} THEN Len(inds) + 1
              ELSE CHOOSE k \in unknown : \A h \in unknown : k <= h
  IN [calculated |-> {inds[k] : k \in 1..(stop - 1)}, raised |-> unknown # {}]

\* the branches of calculate_ta_static that read an indicator's columns, in
\* the order of the code
StaticOrder == <<"ichimoku", "adx", "bb">>

\* calculate_ta_static: the branch of each configured indicator reads the
\* columns calculate_ta_basic added; the first missing column raises and ends
\* the function before the overall section
StaticDone(inds, columns) ==
  LET configured == {k \in 1..Len(StaticOrder) : StaticOrder[k] \in Range(inds)}
      missing == {k \in configured : FeatureColumn(StaticOrder[k]) \notin columns}
      stop == IF missing = {} THEN Len(StaticOrder) + 1
              ELSE CHOOSE k \in missing : \A h \in missing : k <= h
      trends == {StaticOrder[k] : k \in {h \in configured : h < stop}}
  IN [trends |-> trends, raised |-> missing # {}]

\* the name of an indicator's trend column
TrendCol(indicator) == indicator \o "_trend"

\* the columns calculate_ta_basic adds when nothing raises
BasicColumns(inds) ==
  {"rate", "candle_color"} \cup {FeatureColumn(i) : i \in Range(inds) \cap KnownIndicators}

\* the columns calculate_ta_static adds when nothing raises
StaticColumns(inds) == {TrendCol(i) : i \in Range(inds)} \cup {"trend_idx"}

InitFeatureVars ==
  /\ \E n \in 0..MaxRows : \E index \in [1..n -> 1..MaxRows] :
       in_rows = [k \in 1..n |-> [ts |-> index[k], src |-> k]]
  /\ has_split \in BOOLEAN
  /\ indicators \in TrendLists
  /\ df_rows = in_rows
  /\ df_columns = {}
  /\ phase = "preprocess"
  /\ printed = <<>>
  /\ result = "pending"
  /\ recursed = {}

\* if df is None or len(df) == 0: return None
FeatureNoData ==
  /\ phase = "preprocess"
  /\ Len(df_rows) = 0
  /\ phase' = "returned"
  /\ result' = "None"
  /\ UNCHANGED <<in_rows, has_split, indicators, df_rows, df_columns, printed, recursed>>
  /\ UNCHANGED othersOfFeature

\* preprocess raises (the df has no 'Split' column): the except clause of
\* calculate_ta_feature prints and the df handed in is returned
FeaturePreprocessRaises ==
  /\ phase = "preprocess"
  /\ Len(df_rows) > 0
  /\ ~has_split
  /\ printed' = Append(printed, phase)
  /\ phase' = "returned"
  /\ result' = "df"
  /\ UNCHANGED <<in_rows, has_split, indicators, df_rows, df_columns, recursed>>
  /\ UNCHANGED othersOfFeature

FeaturePreprocess ==
  /\ phase = "preprocess"
  /\ Len(df_rows) > 0
  /\ has_split
  /\ df_rows' = PreprocessRows(df_rows)
  /\ df_columns' = df_columns \cup {"symbol"}
  /\ phase' = "cal_ta_basic_features"
  /\ UNCHANGED <<in_rows, has_split, indicators, printed, result, recursed>>
  /\ UNCHANGED othersOfFeature

\* calculate_ta_basic: its own except clause prints and the df is returned
\* with the columns added so far
FeatureBasic ==
  /\ phase = "cal_ta_basic_features"
  /\ LET done == BasicDone(AllIndicatorsOf(indicators))
     IN /\ df_columns' = df_columns \cup {"rate", "candle_color"}
                           \cup {FeatureColumn(i) : i \in done.calculated}
        /\ printed' = IF done.raised THEN Append(printed, phase) ELSE printed
        /\ recursed' = recursed \cup
             {[stage |-> i, index |-> Index(df_rows)] : i \in done.calculated \cap RecursiveIndicators}
  /\ phase' = "cal_ta_static_features"
  /\ UNCHANGED <<in_rows, has_split, indicators, df_rows, result>>
  /\ UNCHANGED othersOfFeature

\* calculate_ta_static: its own except clause prints and the df is returned
\* with the columns added so far; sda runs in the ichimoku and adx branches
\* and in the overall section
FeatureStatic ==
  /\ phase = "cal_ta_static_features"
  /\ LET inds == AllIndicatorsOf(indicators)
         done == StaticDone(inds, df_columns)
     IN /\ df_columns' = df_columns \cup {TrendCol(i) : i \in done.trends}
                           \cup (IF done.raised THEN {} ELSE StaticColumns(inds))
        /\ printed' = IF done.raised THEN Append(printed, phase) ELSE printed
        /\ recursed' = recursed \cup
             (IF done.raised /\ done.trends \cap {"ichimoku", "adx"} = {} THEN {}
              ELSE {[stage |-> "sda", index |-> Index(df_rows)]})
  /\ phase' = "cal_ta_dynamic_features"
  /\ UNCHANGED <<in_rows, has_split, indicators, df_rows, result>>
  /\ UNCHANGED othersOfFeature

\* calculate_ta_dynamic with default_perspectives, then return df
FeatureDynamic ==
  /\ phase = "cal_ta_dynamic_features"
  /\ df_columns' = df_columns \cup {"renko_trend", "candle_patterns", "support"}
  /\ recursed' = recursed \cup {[stage |-> "renko", index |-> Index(df_rows)]}
  /\ phase' = "returned"
  /\ result' = "df"
  /\ UNCHANGED <<in_rows, has_split, indicators, df_rows, printed>>
  /\ UNCHANGED othersOfFeature

NextFeature ==
  \/ FeatureNoData
  \/ FeaturePreprocessRaises
  \/ FeaturePreprocess
  \/ FeatureBasic
  \/ FeatureStatic
  \/ FeatureDynamic

InitFeature == InitFeatureVars /\ IdleSda /\ IdleSignal /\ IdlePsar /\ IdleRenko /\ IdleTa /\ IdleKama /\ IdleAtr /\ IdleAdx /\ IdleCond /\ IdlePipe /\ IdleOverall /\ IdleCross

SpecFeature == InitFeature /\ [][NextFeature]_vars

\* some but not all of the columns a stage adds are in the df
PartlyPopulated(stage_columns) ==
  /\ stage_columns \cap df_columns # {}
  /\ ~(stage_columns \subseteq df_columns)

\* C9 (as the spec states it, in its weakest reading): when an exception was
\* raised inside a stage of calculate_ta_feature, the caller gets an explicit
\* error, or at least no df in which only some of the columns of
\* calculate_ta_basic or of calculate_ta_static are populated.
FailureIsExplicit ==
  (phase = "returned" /\ printed # <<>>) =>
    \/ result = "error"
    \/ /\ ~PartlyPopulated(BasicColumns(AllIndicatorsOf(indicators)))
       /\ ~PartlyPopulated(StaticColumns(AllIndicatorsOf(indicators)))

-----------------------------------------------------------------------------
(* cal_kama: Kaufman's adaptive moving average *)

\* the periods of the fastest and of the slowest EMA constant, arguments of
\* cal_kama; small values keep the rationals of the recurrence small
n2 == 1
n3 == 3

KamaCloses == {1, 2}

\* np.roll(col, k): the entry at t comes from k places before, wrapping round
Roll(col, k) ==
  [t \in 1..Len(col) |-> col[((t - 1 - k) % Len(col)) + 1]]

RECURSIVE SumRange(_, _, _)
SumRange(col, a, b) == IF a > b THEN 0 ELSE col[a] + SumRange(col, a + 1, b)

\* vol.rolling(n).sum(): NaN until n entries are in the window
RollingSum(col, n) ==
  [t \in 1..Len(col) |-> IF t < n THEN NaN ELSE SumRange(col, t - n + 1, t)]

\* no forward fill: a NaN stays
FFillNone(col) == col

\* fillna(method='ffill'): a NaN takes the last value before it, if any
FFill(col) ==
  [t \in 1..Len(col) |->
     LET ks == {k \in 1..t : ~IsNaN(col[k])}
     IN IF ks = {} THEN NaNRat
        ELSE col[CHOOSE k \in ks : \A j \in ks : j <= k]]

\* line 3909: vol = abs(df[close] - np.roll(df[close], 1))
Vol(close_values) ==
  [t \in 1..Len(close_values) |-> Abs(close_values[t] - Roll(close_values, 1)[t])]

\* lines 3908-3914: the efficiency ratio, forward-filled; 0/0 is NaN (a
\* window of zero volatility has a zero net change, so x/0 with x # 0 does
\* not arise)
EfficiencyRatio(close_values, n) ==
  LET vol == Vol(close_values)
      ER_num == [t \in 1..Len(close_values) |->
                   Abs(close_values[t] - Roll(close_values, n)[t])]
      ER_den == RollingSum(vol, n)
      ER == [t \in 1..Len(close_values) |->
               IF ER_den[t] = NaN THEN NaNRat ELSE Rat(ER_num[t], ER_den[t])]
  IN FFill(ER)

\* line 3916: sc = (ER * (2/(n2+1) - 2/(n3+1)) + 2/(n3+1)) ** 2
SmoothingConstant(close_values, n) ==
  LET ER == EfficiencyRatio(close_values, n)
      fast == Rat(2, n2 + 1)
      slow == Rat(2, n3 + 1)
  IN [t \in 1..Len(close_values) |->
        LET x == RatAdd(RatMul(ER[t], RatSub(fast, slow)), slow)
        IN RatMul(x, x)]

\* lines 3908-3920: the state when the loop starts
InitKamaVars ==
  /\ \E n \in 1..MaxKamaBars : kama_close \in [1..n -> KamaCloses]
  /\ n1 \in {1, 2}
  /\ sc = SmoothingConstant(kama_close, n1)
  /\ kama_out = [t \in 1..Len(kama_close) |-> <<0, 1>>]
  /\ first_value = TRUE
  /\ kama_i = 1
  /\ kama_pc = "loop"

\* lines 3923-3924
KamaNan ==
  /\ kama_pc = "loop"
  /\ kama_i <= Len(kama_close)
  /\ IsNaN(sc[kama_i])
  /\ kama_out' = [kama_out EXCEPT ![kama_i] = NaNRat]
  /\ kama_i' = kama_i + 1
  /\ UNCHANGED <<kama_close, n1, sc, first_value, kama_pc>>
  /\ UNCHANGED othersOfKama

\* lines 3926-3928
KamaSeed ==
  /\ kama_pc = "loop"
  /\ kama_i <= Len(kama_close)
  /\ ~IsNaN(sc[kama_i])
  /\ first_value
  /\ kama_out' = [kama_out EXCEPT ![kama_i] = <<kama_close[kama_i], 1>>]
  /\ first_value' = FALSE
  /\ kama_i' = kama_i + 1
  /\ UNCHANGED <<kama_close, n1, sc, kama_pc>>
  /\ UNCHANGED othersOfKama

\* line 3930: kama[i-1] + sc[i] * (close_values[i] - kama[i-1]); a seed is
\* written at the first bar with a smoothing constant and the constants are
\* forward-filled, so here i > 0 and kama[i-1] is a number
KamaStep ==
  /\ kama_pc = "loop"
  /\ kama_i <= Len(kama_close)
  /\ ~IsNaN(sc[kama_i])
  /\ ~first_value
  /\ kama_out' = [kama_out EXCEPT ![kama_i] =
                RatAdd(kama_out[kama_i - 1],
                       RatMul(sc[kama_i],
                              RatSub(<<kama_close[kama_i], 1>>, kama_out[kama_i - 1])))]
  /\ kama_i' = kama_i + 1
  /\ UNCHANGED <<kama_close, n1, sc, first_value, kama_pc>>
  /\ UNCHANGED othersOfKama

\* lines 3931-3940 with fillna=False: df['kama'] = kama
KamaReturn ==
  /\ kama_pc = "loop"
  /\ kama_i > Len(kama_close)
  /\ kama_pc' = "done"
  /\ UNCHANGED <<kama_close, n1, sc, kama_out, first_value, kama_i>>
  /\ UNCHANGED othersOfKama

NextKama == KamaNan \/ KamaSeed \/ KamaStep \/ KamaReturn

InitKama ==
  InitKamaVars /\ IdleSda /\ IdleSignal /\ IdlePsar /\ IdleRenko /\ IdleTa /\ IdleFeature /\ IdleAtr /\ IdleAdx /\ IdleCond /\ IdlePipe /\ IdleOverall /\ IdleCross

SpecKama == InitKama /\ [][NextKama]_vars

\* lines 3918-3930 as one function of the closes: the array kama the loop
\* leaves, first_value carried along
RECURSIVE KamaLoop(_, _, _)
KamaLoop(close_values, sc_values, i) ==
  IF i = 0 THEN [kama |-> <<>>, first_value |-> TRUE]
  ELSE LET before == KamaLoop(close_values, sc_values, i - 1)
       IN IF IsNaN(sc_values[i])
          THEN [kama |-> Append(before.kama, NaNRat), first_value |-> before.first_value]
          ELSE IF before.first_value
          THEN [kama |-> Append(before.kama, <<close_values[i], 1>>), first_value |-> FALSE]
          ELSE [kama |-> Append(before.kama,
                                RatAdd(before.kama[i - 1],
                                       RatMul(sc_values[i],
                                              RatSub(<<close_values[i], 1>>,
                                                     before.kama[i - 1])))),
                first_value |-> FALSE]

\* lines 3908-3931: df['kama'] for the closes close_values and the period n
CalKama(close_values, n) ==
  KamaLoop(close_values, SmoothingConstant(close_values, n), Len(close_values)).kama

\* every close is the same constant
FlatSeries == \A t \in 1..Len(kama_close) : kama_close[t] = kama_close[1]

\* C12: for a flat series cal_kama returns, on every bar after the n1 bars of
\* warm-up, a KAMA equal to the constant close.
KamaFlatSeriesIsConstant ==
  (kama_pc = "done" /\ FlatSeries) =>
    \A t \in (n1 + 1)..Len(kama_close) : kama_out[t] = <<kama_close[1], 1>>

\* the bars where KAMA has produced a value before and the volatility summed
\* over the last n1 bars is exactly zero
ZeroVolatilityBars ==
  {t \in 2..Len(kama_close) :
     /\ \E s \in 1..(t - 1) : ~IsNaN(kama_out[s])
     /\ RollingSum(Vol(kama_close), n1)[t] = 0}

\* the bars with a smoothing constant
DefinedScBars == {t \in 1..Len(kama_close) : ~IsNaN(sc[t])}

\* C24: once KAMA has produced its first value, a bar whose n1-bar volatility
\* sum is exactly zero reuses the smoothing constant of the bar before and
\* KAMA stays defined there, kama[t] = kama[t-1] + sc * (close[t] - kama[t-1]);
\* the first defined KAMA value is the close of the first bar with a defined
\* smoothing constant.
KamaZeroVolatilityReusesConstant ==
  kama_pc = "done" =>
    /\ \A t \in ZeroVolatilityBars :
         /\ sc[t] = sc[t - 1]
         /\ ~IsNaN(kama_out[t])
         /\ kama_out[t] = RatAdd(kama_out[t - 1],
                                 RatMul(sc[t - 1],
                                        RatSub(<<kama_close[t], 1>>, kama_out[t - 1])))
    /\ \A t \in DefinedScBars :
         (\A s \in DefinedScBars : t <= s) =>
           /\ kama_out[t] = <<kama_close[t], 1>>
           /\ \A s \in 1..(t - 1) : IsNaN(kama_out[s])

\* cal_kama has returned, KAMA got its first value after a bar of warm-up,
\* and on a later bar the volatility summed over n1 bars is zero
KamaZeroVolatilityWitness ==
  /\ kama_pc = "done"
  /\ ZeroVolatilityBars # {}
  /\ \E t \in DefinedScBars : t > 1 /\ \A s \in DefinedScBars : t <= s

\* C30: cal_kama has no lookahead: for two close series that agree on bars
\* 0..t the KAMA at bar t, its value and whether it is defined, is the same,
\* whatever the closes after bar t are.
KamaHasNoLookahead ==
  kama_pc = "done" =>
    \A len \in 1..MaxKamaBars :
      \A other \in [1..len -> KamaCloses] :
        \A t \in 1..Min(len, Len(kama_close)) :
          (\A s \in 1..t : other[s] = kama_close[s]) =>
            CalKama(other, n1)[t] = kama_out[t]

\* the loop computes what CalKama computes
KamaLoopIsCalKama ==
  kama_pc = "done" => kama_out = CalKama(kama_close, n1)

-----------------------------------------------------------------------------
(* add_atr_features: true range and average true range, with the defaults   *)
(* fillna=False and cal_signal=True                                         *)

\* the window sizes n handed to add_atr_features
AtrPeriods == {1, 2}

\* df[col].shift(1) at bar t: NaN on the first bar
Shift1(col, t) == IF t = 1 THEN NaN ELSE col[t - 1]

\* df[cols].max(axis=1): the largest entry of a row, NaN skipped
RowMax(row) ==
  LET xs == {row[k] : k \in 1..Len(row)} \ {NaN}
  IN IF xs = {} THEN NaN ELSE CHOOSE x \in xs : \A y \in xs : y <= x

\* lines 4339-4342: df['h_l'] = df[low] - df[low], df['h_pc'], df['l_pc'] and
\* df['tr'], their row-wise maximum
TrueRange(rows) ==
  LET close == [t \in 1..Len(rows) |-> rows[t].close]
  IN [t \in 1..Len(rows) |->
        LET pc == Shift1(close, t)
            h_l == rows[t].low - rows[t].low
            h_pc == IF pc = NaN THEN NaN ELSE Abs(rows[t].high - pc)
            l_pc == IF pc = NaN THEN NaN ELSE Abs(rows[t].low - pc)
        IN RowMax(<<h_l, h_pc, l_pc>>)]

\* sm(series, periods, fillna=True).mean(): series.rolling(window=periods,
\* min_periods=0).mean(), the mean of the last `periods` entries, of fewer
\* where the series is younger than that
RollingMean(col, periods) ==
  [t \in 1..Len(col) |->
     LET a == Max(1, t - periods + 1)
     IN Rat(SumRange(col, a, t), t - a + 1)]

InitAtrVars ==
  /\ \E len \in 1..MaxAtrBars : atr_bars \in [1..len -> BarRows]
  /\ atr_n \in AtrPeriods
  /\ tr = <<>>
  /\ atr = <<>>
  /\ atr_diff = <<>>
  /\ atr_i = 0
  /\ atr_pc = "start"

\* lines 4339-4346: the true range, the rolling mean that seeds df['atr'],
\* and the start of the loop at range(n, len(df))
AtrTrueRange ==
  /\ atr_pc = "start"
  /\ tr' = TrueRange(atr_bars)
  /\ atr' = RollingMean(tr', atr_n)
  /\ atr_i' = atr_n + 1
  /\ atr_pc' = "loop"
  /\ UNCHANGED <<atr_bars, atr_n, atr_diff>>
  /\ UNCHANGED othersOfAtr

\* lines 4347-4351: one iteration of the loop,
\* df.loc[current_idx, 'atr'] = (df.loc[previous_idx, 'atr'] * 13 + df.loc[current_idx, 'tr']) / 14
AtrStep ==
  /\ atr_pc = "loop"
  /\ atr_i <= Len(atr_bars)
  /\ atr' = [atr EXCEPT ![atr_i] =
               RatDiv(RatAdd(RatMul(atr[atr_i - 1], <<13, 1>>), <<tr[atr_i], 1>>), <<14, 1>>)]
  /\ atr_i' = atr_i + 1
  /\ UNCHANGED <<atr_bars, atr_n, tr, atr_diff, atr_pc>>
  /\ UNCHANGED othersOfAtr

\* lines 4353-4362 with fillna=False and cal_signal=True:
\* df['atr_diff'] = df['tr'] - df['atr'], then the helper columns are dropped
AtrReturn ==
  /\ atr_pc = "loop"
  /\ atr_i > Len(atr_bars)
  /\ atr_diff' = [t \in 1..Len(atr_bars) |-> RatSub(<<tr[t], 1>>, atr[t])]
  /\ atr_pc' = "done"
  /\ UNCHANGED <<atr_bars, atr_n, tr, atr, atr_i>>
  /\ UNCHANGED othersOfAtr

NextAtr == AtrTrueRange \/ AtrStep \/ AtrReturn

InitAtr ==
  InitAtrVars /\ IdleSda /\ IdleSignal /\ IdlePsar /\ IdleRenko /\ IdleTa /\ IdleFeature /\ IdleKama /\ IdleAdx /\ IdleCond /\ IdlePipe /\ IdleOverall /\ IdleCross

SpecAtr == InitAtr /\ [][NextAtr]_vars

\* C21: for every bar with a preceding bar, the true range is
\* max(high - low, |high - prev_close|, |low - prev_close|).
TrueRangeIsMaxOfThree ==
  atr_pc \in {"loop", "done"} =>
    \A t \in 2..Len(atr_bars) :
      tr[t] = Max(atr_bars[t].high - atr_bars[t].low,
                  Max(Abs(atr_bars[t].high - atr_bars[t - 1].close),
                      Abs(atr_bars[t].low - atr_bars[t - 1].close)))

\* C22: for every window size n, atr at bar n-1 (the n-th bar) is the simple
\* average of the first n true-range values, and on every later bar t
\* atr[t] = (atr[t-1] * (n-1) + tr[t]) / n.
AtrIsWilderAverageForEveryN ==
  atr_pc = "done" =>
    /\ atr_n <= Len(atr_bars) => atr[atr_n] = Rat(SumRange(tr, 1, atr_n), atr_n)
    /\ \A t \in (atr_n + 1)..Len(atr_bars) :
         atr[t] = RatDiv(RatAdd(RatMul(atr[t - 1], <<atr_n - 1, 1>>), <<tr[t], 1>>),
                         <<atr_n, 1>>)

-----------------------------------------------------------------------------
(* add_adx_features: the average directional index over df['dx'], with     *)
(* fillna=False                                                            *)

\* the window size n handed to add_adx_features
AdxPeriod == 2

\* the values df['dx'] = 100 * |pdi - mdi| / (pdi + mdi) takes: 0 where the
\* two indicators agree, 100 where one of them is 0, NaN where neither is
\* defined or both are 0
DxValues == {NaN, 0, 100}

RECURSIVE Pow(_, _)
Pow(b, e) == IF e = 0 THEN 1 ELSE b * Pow(b, e - 1)

RECURSIVE WeightedSum(_, _, _)
WeightedSum(w, col, t) ==
  IF t = 0 THEN 0
  ELSE WeightedSum(w, col, t - 1) + (IF col[t] = NaN THEN 0 ELSE w[t] * col[t])

\* em(series, periods).mean(): series.ewm(span=periods, min_periods=periods)
\* .mean() with pandas' defaults adjust=True and ignore_na=False. With
\* alpha = 2 / (periods + 1) the entry k places back weighs (1 - alpha)^k,
\* a NaN entry is left out of both sums, and the result is NaN until
\* `periods` entries that are not NaN have been seen. The weights are scaled
\* by (periods + 1)^(t - 1) to keep them whole.
EwmMean(col, periods) ==
  [t \in 1..Len(col) |->
     LET w == [k \in 1..t |-> Pow(periods - 1, t - k) * Pow(periods + 1, k - 1)]
         ones == [k \in 1..t |-> IF col[k] = NaN THEN NaN ELSE 1]
     IN IF Cardinality({k \in 1..t : col[k] # NaN}) < periods THEN NaNRat
        ELSE Rat(WeightedSum(w, col, t), WeightedSum(w, ones, t))]

\* lines 2704-2720 leave df['dx']: pdm and mdm are NaN on the first bar (line
\* 2712-2713, high_diff and low_diff are), em(..., periods=n) needs n values,
\* so pdi, mdi and dx are NaN on the first n bars
InitAdxVars ==
  /\ \E len \in 1..MaxAdxBars :
       dx \in {col \in [1..len -> DxValues] :
                 \A t \in 1..len : t <= AdxPeriod => col[t] = NaN}
  /\ adx_out = <<>>
  /\ adx_i = 0
  /\ adx_pc = "start"

\* lines 2723-2726: df['adx'] = em(series=df['dx'], periods=n).mean() and the
\* start of the loop at range(n*2, len(df)-1)
AdxEwm ==
  /\ adx_pc = "start"
  /\ adx_out' = EwmMean(dx, AdxPeriod)
  /\ adx_i' = 2 * AdxPeriod + 1
  /\ adx_pc' = "loop"
  /\ UNCHANGED dx
  /\ UNCHANGED othersOfAdx

\* lines 2726-2729: one iteration of for i in range(n*2, len(df)-1)
AdxStep ==
  /\ adx_pc = "loop"
  /\ adx_i <= Len(dx) - 1
  /\ adx_out' = [adx_out EXCEPT ![adx_i] =
                   RatDiv(RatAdd(RatMul(adx_out[adx_i - 1], <<AdxPeriod - 1, 1>>),
                                 ToRat(dx[adx_i])),
                          <<AdxPeriod, 1>>)]
  /\ adx_i' = adx_i + 1
  /\ UNCHANGED <<dx, adx_pc>>
  /\ UNCHANGED othersOfAdx

\* lines 2732-2743 with fillna=False: df['adx'] is returned as the loop left it
AdxReturn ==
  /\ adx_pc = "loop"
  /\ adx_i > Len(dx) - 1
  /\ adx_pc' = "done"
  /\ UNCHANGED <<dx, adx_out, adx_i>>
  /\ UNCHANGED othersOfAdx

NextAdx == AdxEwm \/ AdxStep \/ AdxReturn

InitAdx ==
  InitAdxVars /\ IdleSda /\ IdleSignal /\ IdlePsar /\ IdleRenko /\ IdleTa /\ IdleFeature /\ IdleKama /\ IdleAtr /\ IdleCond /\ IdlePipe /\ IdleOverall /\ IdleCross

SpecAdx == InitAdx /\ [][NextAdx]_vars

\* C23: for every bar index t >= 2n up to and including the last bar,
\* adx[t] = (adx[t-1] * (n-1) + dx[t]) / n: no bar after the warm-up keeps the
\* exponentially weighted value.
AdxRecursesThroughLastBar ==
  adx_pc = "done" =>
    \A t \in (2 * AdxPeriod + 1)..Len(dx) :
      adx_out[t] = RatDiv(RatAdd(RatMul(adx_out[t - 1], <<AdxPeriod - 1, 1>>),
                                 ToRat(dx[t])),
                          <<AdxPeriod, 1>>)

-----------------------------------------------------------------------------
(* assign_condition_value over the rule tables of stoch_trend and           *)
(* renko_trend                                                             *)

\* the columns whose rule table is applied (calculate_ta_static line 577,
\* calculate_ta_dynamic line 725)
TrendRules == {"stoch_trend", "renko_trend"}

\* rows of the columns the conditions read: the stochastic oscillator's
\* stoch_diff and stoch_k; the candle, the brick and the bar's Low and Close
\* around a brick from renko_l = 10 to renko_h = 12
RuleRows(column) ==
  IF column = "stoch_trend"
  THEN [stoch_diff : {-2, 0, 2}, stoch_k : {10, 50, 90}]
  ELSE { r \in [candle_color : {1, -1}, renko_color : {"red", "green"},
                Low : {9, 13}, Close : {9, 14}, renko_l : {10}, renko_h : {12}] :
           r.Low <= r.Close }

\* value_dict, in the order of its keys, with default_value = 'n'
ValueDict == <<[key |-> "up", value |-> "u"], [key |-> "down", value |-> "d"]>>

\* condition_dict[key] on one row: lines 570-572 and 719-721
ConditionHolds(column, key, r) ==
  IF column = "stoch_trend"
  THEN IF key = "up" THEN r.stoch_diff > 1 \/ r.stoch_k > 80
       ELSE r.stoch_diff < -1 \/ r.stoch_k < 20
  ELSE IF key = "up"
       THEN /\ r.candle_color = 1
            /\ \/ r.renko_color = "red" /\ r.Low > r.renko_h
               \/ r.renko_color = "green"
       ELSE \/ r.renko_color = "red"
            \/ r.renko_color = "green" /\ r.Close < r.renko_l

\* filter_idx: the index of the rows df.query(condition_dict[key]) returns
FilterIdx(df, column, key) ==
  {t \in 1..Len(df) : ConditionHolds(column, key, df[t])}

InitCondVars ==
  /\ cond_column \in TrendRules
  /\ \E len \in 1..MaxCondRows : cond_df \in [1..len -> RuleRows(cond_column)]
  /\ cond_out = <<>>
  /\ cond_k = 0
  /\ cond_pc = "start"

\* lines 1335-1339: df[column] = default_value, and filter_idx is evaluated
AssignDefault ==
  /\ cond_pc = "start"
  /\ cond_out' = [t \in 1..Len(cond_df) |-> "n"]
  /\ cond_k' = 1
  /\ cond_pc' = "keys"
  /\ UNCHANGED <<cond_df, cond_column>>
  /\ UNCHANGED othersOfCond

\* lines 1340-1347: one key of value_dict,
\* df.loc[condition_idx, column] = condition_value
AssignKey ==
  /\ cond_pc = "keys"
  /\ cond_k <= Len(ValueDict)
  /\ LET condition_idx == FilterIdx(cond_df, cond_column, ValueDict[cond_k].key)
         condition_value == ValueDict[cond_k].value
     IN cond_out' = [t \in 1..Len(cond_df) |->
                       IF t \in condition_idx THEN condition_value ELSE cond_out[t]]
  /\ cond_k' = cond_k + 1
  /\ UNCHANGED <<cond_df, cond_column, cond_pc>>
  /\ UNCHANGED othersOfCond

\* line 1349
AssignReturn ==
  /\ cond_pc = "keys"
  /\ cond_k > Len(ValueDict)
  /\ cond_pc' = "done"
  /\ UNCHANGED <<cond_df, cond_column, cond_out, cond_k>>
  /\ UNCHANGED othersOfCond

NextCond == AssignDefault \/ AssignKey \/ AssignReturn

InitCond ==
  InitCondVars /\ IdleSda /\ IdleSignal /\ IdlePsar /\ IdleRenko /\ IdleTa /\ IdleFeature /\ IdleKama /\ IdleAtr /\ IdleAdx /\ IdlePipe /\ IdleOverall /\ IdleCross

SpecCond == InitCond /\ [][NextCond]_vars

\* C25: when a bar satisfies both an up rule and a down rule the label of the
\* earlier-declared rule is kept: a later rule replaces only the default 'n',
\* never an assigned 'u' or 'd'.
EarlierRuleKeepsItsLabel ==
  cond_pc = "done" =>
    \A t \in 1..Len(cond_df) :
      \A j \in 1..Len(ValueDict) :
        ( /\ ConditionHolds(cond_column, ValueDict[j].key, cond_df[t])
          /\ \A i \in 1..(j - 1) : ~ConditionHolds(cond_column, ValueDict[i].key, cond_df[t]) )
        => cond_out[t] = ValueDict[j].value

-----------------------------------------------------------------------------
(* The columns each stage of the pipeline assigns: preprocess,             *)
(* calculate_ta_basic, calculate_ta_static, calculate_ta_dynamic,          *)
(* calculate_ta_score and calculate_ta_signal, with the default            *)
(* perspectives and the default indicators, with or without 'aroon'        *)

\* the rows handed to preprocess: Split is 1.0 on every row, so the
\* adjustment of lines 162-176 multiplies Adj Close by 1
PipeRows == [Close : {10, 20}, Adj_Close : {10, 20}]

\* the columns of the df handed to preprocess
InputColumns ==
  {"Open", "High", "Low", "Close", "Volume", "Adj Close", "Split", "Dividend"}

aroon_col == {"aroon_up", "aroon_down", "aroon_gap"}

\* the columns whose name contains 'renko'
RenkoColumns ==
  {"renko_o", "renko_h", "renko_l", "renko_c", "renko_color", "renko_brick_height",
   "renko_trend", "renko_signal"}

score_cols ==
  {"inday_trend_score", "short_trend_score", "middle_trend_score", "long_trend_score",
   "trend_score"}

\* the columns a stage assigns to
StageWrites(stage) ==
  CASE stage = "preprocess" ->
         {"Adj Close", "High", "Low", "Open", "Close", "Split", "Dividend", "symbol"}
    [] stage = "calculate_ta_basic" ->
         {"rate", "candle_color", "tankan", "kijun", "kama_fast", "kama_slow",
          "tr", "atr", "adx", "adx_diff_ma", "bb_high_band", "bb_low_band"}
         \cup (IF aroon THEN aroon_col ELSE {})
    [] stage = "calculate_ta_static" ->
         {"ichimoku_trend", "kama_trend", "adx_trend", "bb_trend",
          "up_trend_idx", "down_trend_idx", "trend_idx"}
         \cup (IF aroon THEN aroon_col \cup {"aroon_trend"} ELSE {})
    [] stage = "calculate_ta_dynamic" -> RenkoColumns
    [] stage = "calculate_ta_score" -> score_cols \cup {"major_score"}
    [] stage = "calculate_ta_signal" ->
         score_cols
         \cup {"inday_trend", "short_trend", "middle_trend", "long_trend", "trend",
               "inday_day", "short_day", "middle_day", "long_day", "trend_day", "signal"}

\* the columns a stage drops from the df it was handed: add_renko_features
\* drops every column whose name contains 'renko' before it merges its own
StageDrops(stage) ==
  IF stage = "calculate_ta_dynamic" THEN RenkoColumns \cap DOMAIN writers ELSE {}

\* the stages in the order calculate_ta_feature and calculate_ta_signal call them
Stages ==
  <<"preprocess", "calculate_ta_basic", "calculate_ta_static", "calculate_ta_dynamic",
    "calculate_ta_score", "calculate_ta_signal">>

StageAfter(stage) ==
  IF stage = Stages[Len(Stages)] THEN "done"
  ELSE Stages[(CHOOSE k \in 1..Len(Stages) : Stages[k] = stage) + 1]

InitPipeVars ==
  /\ \E len \in 1..MaxPipeRows : pipe_in \in [1..len -> PipeRows]
  /\ aroon \in BOOLEAN
  /\ pipe_close = [t \in 1..Len(pipe_in) |-> <<pipe_in[t].Close, 1>>]
  /\ writers = [c \in InputColumns |-> <<>>]
  /\ dropped = {}
  /\ pipe_pc = "preprocess"

\* what a stage does to the columns of df
RunStage(stage) ==
  /\ pipe_pc = stage
  /\ writers' = [c \in (DOMAIN writers \ StageDrops(stage)) \cup StageWrites(stage) |->
                   IF c \in StageWrites(stage)
                   THEN (IF c \in DOMAIN writers \ StageDrops(stage) THEN writers[c] ELSE <<>>)
                        \o <<stage>>
                   ELSE writers[c]]
  /\ dropped' = dropped \cup StageDrops(stage)
  /\ pipe_pc' = StageAfter(stage)
  /\ UNCHANGED <<pipe_in, aroon>>
  /\ UNCHANGED othersOfPipe

\* preprocess, lines 179-181: adj_rate = df['Adj Close'] / df['Close'] and
\* df[col] = df[col] * adj_rate for High, Low, Open and Close
Preprocess ==
  /\ RunStage("preprocess")
  /\ pipe_close' = [t \in 1..Len(pipe_in) |->
                      RatMul(pipe_close[t], Rat(pipe_in[t].Adj_Close, pipe_in[t].Close))]

CalculateTaBasicColumns == RunStage("calculate_ta_basic") /\ UNCHANGED pipe_close

\* with 'aroon' among the trend indicators, lines 367-369:
\* df[aroon_col] = df[aroon_col].round(1)
CalculateTaStaticColumns == RunStage("calculate_ta_static") /\ UNCHANGED pipe_close

\* add_renko_features, lines 3494-3498
CalculateTaDynamicColumns == RunStage("calculate_ta_dynamic") /\ UNCHANGED pipe_close

\* line 1067, the first call of calculate_ta_signal
CalculateTaScoreColumns == RunStage("calculate_ta_score") /\ UNCHANGED pipe_close

\* lines 1070-1171; line 1076 is df[score_col] = df[score_col].round(2)
CalculateTaSignalColumns == RunStage("calculate_ta_signal") /\ UNCHANGED pipe_close

NextPipe ==
  \/ Preprocess
  \/ CalculateTaBasicColumns
  \/ CalculateTaStaticColumns
  \/ CalculateTaDynamicColumns
  \/ CalculateTaScoreColumns
  \/ CalculateTaSignalColumns

InitPipe ==
  InitPipeVars /\ IdleSda /\ IdleSignal /\ IdlePsar /\ IdleRenko /\ IdleTa /\ IdleFeature /\ IdleKama /\ IdleAtr /\ IdleAdx /\ IdleCond /\ IdleOverall /\ IdleCross

SpecPipe == InitPipe /\ [][NextPipe]_vars

\* no column a stage added was assigned to by two stages
OutputColumnsWrittenOnce ==
  \A c \in DOMAIN writers \ InputColumns : Len(writers[c]) <= 1

\* df['Close'] holds what the caller handed in
InputCloseUnmodified ==
  \A t \in 1..Len(pipe_in) : pipe_close[t] = <<pipe_in[t].Close, 1>>

\* C26: every output column is written by exactly one stage, no stage
\* overwrites or drops a column an earlier stage produced, and the input
\* OHLCV columns are never modified.
EveryColumnHasOneWriter ==
  /\ OutputColumnsWrittenOnce
  /\ dropped = {}
  /\ InputCloseUnmodified

-----------------------------------------------------------------------------
(* The overall trend index of calculate_ta_static                          *)

\* the indicator names the lists of indicators draw from
OverallNames == {"adx", "kama", "bb"}

\* the lists of the keys 'trend', 'volume', 'volatility' and 'other'
IndicatorLists ==
  { <<trend, <<>>, volatility, <<>>>> :
      trend \in UNION {[1..k -> {"adx", "kama"}] : k \in 0..2},
      volatility \in {<<>>, <<"bb">>, <<"adx">>, <<"bb", "adx">>} }

\* [x for x in l if x not in all]
NotIn(l, all) == SelectSeq(l, LAMBDA x : \A j \in 1..Len(all) : all[j] # x)

\* lines 646-648: for i in indicators.keys():
\*   all_indicators += [x for x in indicators[i] if x not in all_indicators]
RECURSIVE AllIndicatorsUpTo(_, _)
AllIndicatorsUpTo(lists, k) ==
  IF k = 0 THEN <<>>
  ELSE LET before == AllIndicatorsUpTo(lists, k - 1)
       IN before \o NotIn(lists[k], before)

\* line 650: include_indicators = [x for x in all_indicators if x != 'bb']
include_indicators == {all_indicators[j] : j \in 1..Len(all_indicators)} \ {"bb"}

InitOverallVars ==
  /\ ov_indicators \in IndicatorLists
  /\ \E len \in 1..MaxOverallBars :
       ov_trend \in [OverallNames -> [1..len -> {"u", "d", "n"}]]
  /\ all_indicators = <<>>
  /\ ov_idx = <<>>
  /\ ov_k = 0
  /\ ov_pc = "start"

\* the number of bars of df
OverallLen == Len(ov_trend["adx"])

\* lines 641-650
OverallStart ==
  /\ ov_pc = "start"
  /\ ov_idx' = [up_trend_idx |-> [t \in 1..OverallLen |-> 0],
                down_trend_idx |-> [t \in 1..OverallLen |-> 0],
                trend_idx |-> [t \in 1..OverallLen |-> 0]]
  /\ all_indicators' = AllIndicatorsUpTo(ov_indicators, Len(ov_indicators))
  /\ ov_k' = 1
  /\ ov_pc' = "loop"
  /\ UNCHANGED <<ov_indicators, ov_trend>>
  /\ UNCHANGED othersOfOverall

\* lines 651-679, one indicator of all_indicators: for a voting indicator
\* df.loc[up_idx, 'up_trend_idx'] += 1 and df.loc[down_idx, 'down_trend_idx'] -= 1
OverallIndicator ==
  /\ ov_pc = "loop"
  /\ ov_k <= Len(all_indicators)
  /\ LET indicator == all_indicators[ov_k]
         up_idx == {t \in 1..OverallLen : ov_trend[indicator][t] = "u"}
         down_idx == {t \in 1..OverallLen : ov_trend[indicator][t] = "d"}
     IN ov_idx' =
          IF indicator \in include_indicators
          THEN [ov_idx EXCEPT
                  !.up_trend_idx = [t \in 1..OverallLen |->
                                      IF t \in up_idx THEN @[t] + 1 ELSE @[t]],
                  !.down_trend_idx = [t \in 1..OverallLen |->
                                        IF t \in down_idx THEN @[t] - 1 ELSE @[t]]]
          ELSE ov_idx
  /\ ov_k' = ov_k + 1
  /\ UNCHANGED <<ov_indicators, ov_trend, all_indicators, ov_pc>>
  /\ UNCHANGED othersOfOverall

\* line 682: df['trend_idx'] = df['up_trend_idx'] + df['down_trend_idx']
OverallTrendIdx ==
  /\ ov_pc = "loop"
  /\ ov_k > Len(all_indicators)
  /\ ov_idx' = [ov_idx EXCEPT
                  !.trend_idx = [t \in 1..OverallLen |->
                                   ov_idx.up_trend_idx[t] + ov_idx.down_trend_idx[t]]]
  /\ ov_pc' = "done"
  /\ UNCHANGED <<ov_indicators, ov_trend, all_indicators, ov_k>>
  /\ UNCHANGED othersOfOverall

NextOverall == OverallStart \/ OverallIndicator \/ OverallTrendIdx

InitOverall ==
  InitOverallVars /\ IdleSda /\ IdleSignal /\ IdlePsar /\ IdleRenko /\ IdleTa /\ IdleFeature /\ IdleKama /\ IdleAtr /\ IdleAdx /\ IdleCond /\ IdlePipe /\ IdleCross

SpecOverall == InitOverall /\ [][NextOverall]_vars

\* the voting indicators: every configured indicator except 'bb'
Voting ==
  (UNION {{ov_indicators[c][j] : j \in 1..Len(ov_indicators[c])} :
            c \in 1..Len(ov_indicators)}) \ {"bb"}

\* C27: with N voting indicators, on every bar up_trend_idx is the number of
\* voting indicators labelled 'u', down_trend_idx is minus the number
\* labelled 'd', trend_idx is their sum and lies in [-N, N], and trend_idx = N
\* exactly when every voting indicator is 'u'; an indicator listed under
\* several categories is counted once.
TrendIdxCountsVotingIndicators ==
  ov_pc = "done" =>
    \A t \in 1..OverallLen :
      LET N == Cardinality(Voting)
      IN /\ ov_idx.up_trend_idx[t] = Cardinality({i \in Voting : ov_trend[i][t] = "u"})
         /\ ov_idx.down_trend_idx[t] = 0 - Cardinality({i \in Voting : ov_trend[i][t] = "d"})
         /\ ov_idx.trend_idx[t] = ov_idx.up_trend_idx[t] + ov_idx.down_trend_idx[t]
         /\ -N <= ov_idx.trend_idx[t] /\ ov_idx.trend_idx[t] <= N
         /\ ov_idx.trend_idx[t] = N <=> \A i \in Voting : ov_trend[i][t] = "u"

\* no list of indicators names an indicator twice
NoRepeatInOneList ==
  \A c \in 1..Len(ov_indicators) :
    \A i, j \in 1..Len(ov_indicators[c]) :
      i # j => ov_indicators[c][i] # ov_indicators[c][j]

\* the statement of C27 for the configurations whose lists have no repeat
TrendIdxCountsWithoutRepeats ==
  NoRepeatInOneList => TrendIdxCountsVotingIndicators

-----------------------------------------------------------------------------
(* cal_crossover_signal, with the default pos_signal='b', neg_signal='s',   *)
(* none_signal='n'                                                         *)

\* the values of the fast line; the slow line stays at 1
LineValues == {0, 1, 2}

InitCrossVars ==
  /\ \E len \in 1..MaxCrossBars :
       /\ fast_line \in [1..len -> LineValues]
       /\ slow_line = [t \in 1..len |-> 1]
  /\ cross_signal = <<>>
  /\ cross_pc = "start"

\* lines 1658-1669 for one bar: diff, diff_prev = diff.shift(1), NaN on the
\* first bar where every comparison is False, and the two conditions handed
\* to assign_condition_value
CrossoverSignal(fast, slow, t) ==
  LET diff == fast[t] - slow[t]
      diff_prev == IF t = 1 THEN NaN ELSE fast[t - 1] - slow[t - 1]
      up == \/ diff >= 0 /\ Lt(diff_prev, 0)
            \/ diff > 0 /\ Le(diff_prev, 0)
      down == \/ diff <= 0 /\ Lt(0, diff_prev)
              \/ diff < 0 /\ Le(0, diff_prev)
  IN AssignValue(<<up, down>>, <<"b", "s">>, "n")

\* lines 1655-1671
CalCrossoverSignal ==
  /\ cross_pc = "start"
  /\ cross_signal' = [t \in 1..Len(fast_line) |-> CrossoverSignal(fast_line, slow_line, t)]
  /\ cross_pc' = "done"
  /\ UNCHANGED <<fast_line, slow_line>>
  /\ UNCHANGED othersOfCross

NextCross == CalCrossoverSignal

InitCross ==
  InitCrossVars /\ IdleSda /\ IdleSignal /\ IdlePsar /\ IdleRenko /\ IdleTa /\ IdleFeature /\ IdleKama /\ IdleAtr /\ IdleAdx /\ IdleCond /\ IdlePipe /\ IdleOverall

SpecCross == InitCross /\ [][NextCross]_vars

\* C29: cal_crossover_signal never emits two positive signals without a
\* negative signal between them, nor two negative signals without a positive
\* one between them, also when the difference passes through exactly zero.
CrossoverSignalsAlternate ==
  cross_pc = "done" =>
    \A i, j \in 1..Len(cross_signal) :
      (i < j /\ cross_signal[i] = cross_signal[j] /\ cross_signal[i] \in {"b", "s"}) =>
        \E k \in (i + 1)..(j - 1) :
          cross_signal[k] \in {"b", "s"} /\ cross_signal[k] # cross_signal[i]

=============================================================================
